---- MODULE Spec2Model ----
(***************************************************************************)
(* claude-telepresence relay v2 (src/relay.py): the session, the outbound  *)
(* flow control, the stream registry and the tool handlers of RelayV2, as  *)
(* cooperating asyncio tasks.  One step of the model is the code a task    *)
(* runs between two suspension points (an await that really suspends).     *)
(***************************************************************************)
EXTENDS Integers, Sequences, FiniteSets, TLC

\* ------------------------------------------------------------------------
\* Program constants
\* ------------------------------------------------------------------------
PROTOCOL_VERSION == 2
DEFAULT_WINDOW == 262144
CHUNK_SIZE == 65536
WINDOW_UPDATE_THRESHOLD == 8192
STATUS_OK == 0
STATUS_ERROR == 1
MAX_PAYLOAD == 16777216
\* struct.pack('>I', stream_id): the id every STREAM_DATA payload starts with
SID_LEN == 4

\* ------------------------------------------------------------------------
\* Bounds of the model
\* ------------------------------------------------------------------------
\* STREAM_DATA packets kept per registered stream
MaxChunks == 2
\* open_stream calls over the life of the relay process
MaxStreams == 4
\* The runs explored, by what the environment does in them.  Each bounds the
\* TCP connections accepted, the tools/call requests handled and the packets
\* the dispatchers read (the GOODBYE or EOF that ends a session is not
\* counted) over the life of the relay process.
FlowAccepts == 1
FlowCalls == 2
FlowInbound == 2
StreamAccepts == 1
StreamCalls == 2
StreamInbound == 3
LegAccepts == 2
LegCalls == 1
LegInbound == 2
ReconnectAccepts == 2
ReconnectCalls == 1
ReconnectInbound == 2
RestartAccepts == 2
RestartCalls == 2
RestartInbound == 2
ChunkAccepts == 1
ChunkCalls == 2
ChunkInbound == 1

Conns == {"c1", "c2"}
Tools == {"t1", "t2"}
Less(x, y) == x = "c1" \/ x = "t1"

\* the asyncio tasks: one handle_client per connection with its
\* packet_dispatcher and pty_to_client tasks, and the tool-call handlers
Hc(c) == <<"hc", c>>
Disp(c) == <<"disp", c>>
Pty(c) == <<"pty", c>>
Term(c) == <<"term", c>>
Tool(t) == <<"tool", t>>
Procs == {Hc(c) : c \in Conns} \cup {Disp(c) : c \in Conns}
            \cup {Pty(c) : c \in Conns} \cup {Term(c) : c \in Conns}
            \cup {Tool(t) : t \in Tools}

\* values the peer and the callers choose
HelloWindows == {1024, 8200}
WriteLens == {4096}
\* a session with the default window, and contents of one chunk and of more
LongWindows == {DEFAULT_WINDOW}
LongWriteLens == {CHUNK_SIZE, 70000}
PtyLens == {4100}
Increments == {4100}
\* the data of an inbound STREAM_DATA packet, as a list of byte values
DataChunks == {<<1>>, <<0, 2>>}
\* len(payload) of an inbound STREAM_DATA carrying d: the model's byte stands
\* for a block of 4092 bytes, after the 4-byte stream id
InPayloadLen(d) == SID_LEN + 4092 * Len(d)
TermInputLens == {4096}
\* the payload of an inbound PING
PingPayloads == {<<>>, <<7>>}
\* stream ids the peer may name: the ids the relay can allocate
StreamIds == {2 * i : i \in 0..(MaxStreams - 1)}
ToolKinds == {"read", "exec", "write", "dfh"}

\* the environments: which tools are called, which packets the peer sends
\* after the handshake, whether the assistant writes to its terminal, and
\* whether a client connects while another connection is still open
Scenarios ==
    {[name |-> "flow", kinds |-> {"write"},
      pkts |-> {"WINDOW_UPDATE", "PING", "TERM_INPUT", "STREAM_END", "TOOLARGE"},
      pty |-> TRUE, overlap |-> FALSE, accepts |-> FlowAccepts, calls |-> FlowCalls,
      inbound |-> FlowInbound],
     [name |-> "reconnect", kinds |-> {"write"}, pkts |-> {"WINDOW_UPDATE", "PING"},
      pty |-> TRUE, overlap |-> FALSE, accepts |-> ReconnectAccepts,
      calls |-> ReconnectCalls, inbound |-> ReconnectInbound],
     [name |-> "streams", kinds |-> {"read", "exec"},
      pkts |-> {"STREAM_DATA", "STREAM_END", "STREAM_ERROR"},
      pty |-> FALSE, overlap |-> FALSE, accepts |-> StreamAccepts, calls |-> StreamCalls,
      inbound |-> StreamInbound],
     [name |-> "restart", kinds |-> {"read"}, pkts |-> {"STREAM_DATA", "STREAM_END"},
      pty |-> FALSE, overlap |-> FALSE, accepts |-> RestartAccepts,
      calls |-> RestartCalls, inbound |-> RestartInbound],
     [name |-> "legs", kinds |-> {"dfh"}, pkts |-> {"STREAM_DATA", "STREAM_END"},
      pty |-> FALSE, overlap |-> TRUE, accepts |-> LegAccepts, calls |-> LegCalls,
      inbound |-> LegInbound],
     [name |-> "chunks", kinds |-> {"write"}, pkts |-> {"STREAM_END"},
      pty |-> TRUE, overlap |-> FALSE, accepts |-> ChunkAccepts, calls |-> ChunkCalls,
      inbound |-> ChunkInbound]}
\* the lengths of the contents written in an environment
WriteLensIn(e) == IF e.name = "chunks" THEN LongWriteLens ELSE WriteLens

FlowControlled == {"STREAM_DATA", "TERM_OUTPUT"}
\* a packet: type, len(payload), the stream id it names, and the payload
\* bytes where the relay copies them (PONG)
NoPkt == [type |-> "none", len |-> 0, sid |-> 0, data |-> <<>>]
Pkt(type, len, sid) == [type |-> type, len |-> len, sid |-> sid, data |-> <<>>]
NoCredit == [rcvd |-> 0, sent |-> 0]
NoEmitted == [content |-> 0, pkts |-> <<>>]
NoPing == [out |-> FALSE, data |-> <<>>]
NoFirst == [type |-> "none", len |-> 0, version |-> 0, window |-> 0]
NoPeer == [data |-> <<>>, ended |-> FALSE, late |-> FALSE]
NoResult == [kind |-> "none", via |-> "none", sid |-> 0, data |-> <<>>, own |-> 0]
\* own: the future this handler's open_stream created; fut: the one it awaits
NoTool == [kind |-> "none", sid |-> 0, fut |-> 0, left |-> 0, leg |-> 0, own |-> 0]

VARIABLES
    \* RelayV2 fields
    client_writer,          \* the connection self.client_writer writes to
    client_connected,       \* asyncio.Event
    remote_window,
    bytes_in_flight,
    bytes_received_unacked,
    next_stream_id,
    pending_streams,        \* stream id -> index of its future in futs
    stream_data,            \* stream id -> list of chunks
    master_fd,              \* TRUE while a PTY master / assistant is held
    send_lock,              \* the task holding self.send_lock, or <<>>
    lockq,                  \* tasks waiting in send_lock.acquire(), FIFO
    window_available,       \* asyncio.Event
    \* the asyncio world
    futs,                   \* every future open_stream created
    pc,                     \* where each task is suspended
    snd,                    \* the packet a task is inside send_packet with
    inline,                 \* a task found the lock free: it runs on, not suspended
    tl,                     \* locals of each tool handler
    conn_open,              \* the connection's transport is not closed
    accepts,
    calls,
    inbound,
    env,                    \* what the peer, the assistant and the callers do in this run
    \* observations
    tres,                   \* last result each tool handler returned
    openLog,                \* ids of the STREAM_OPEN packets written, per connection
    resumed,                \* tasks that wrote a packet on waking from the credit wait
    peer,                   \* per id: DATA received before the END/ERROR, since its OPEN
    first,                  \* the first packet each connection's handler read
    byes,                   \* connections a GOODBYE was written to
    ping,                   \* per connection: the PING read and not yet answered
    wire,                   \* per connection: what was written since the last whole packet
    credit,                 \* per session: payload bytes received, increments sent
    emitted,                \* per tool: the packets written for the stream it opened last
    unit,                   \* a function of a handler applied to its inputs, apart from the session
    sessions                \* handshakes completed

relayVars == <<client_writer, client_connected, remote_window, bytes_received_unacked,
               next_stream_id, pending_streams, stream_data, master_fd>>
sendVars == <<send_lock, lockq, window_available, bytes_in_flight, snd, inline, openLog,
             resumed>>
taskVars == <<futs, pc, tl, conn_open, accepts, calls, inbound>>
obsVars == <<tres, peer, sessions>>
mainVars == <<relayVars, sendVars, taskVars, obsVars, env, first, byes, ping, wire, emitted, credit>>
vars == <<mainVars, unit, emitted, credit>>

Free == <<>>
Max(a, b) == IF a >= b THEN a ELSE b
Min(a, b) == IF a <= b THEN a ELSE b

\* dict.pop(k, None) and dict[k] = v on a Python dict
DictPop(d, k) == [x \in (DOMAIN d) \ {k} |-> d[x]]
DictPut(d, k, v) == [x \in (DOMAIN d) \cup {k} |-> IF x = k THEN v ELSE d[x]]
EmptyDict == [x \in {} |-> 0]

RECURSIVE Concat(_)
\* b''.join(chunks)
Concat(chunks) == IF chunks = <<>> THEN <<>> ELSE Head(chunks) \o Concat(Tail(chunks))

\* connections and handler tasks are interchangeable: a new one takes the
\* first free slot
FirstFree(S) == CHOOSE x \in S : \A y \in S : x = y \/ Less(x, y)


\* ------------------------------------------------------------------------
\* Initial state: RelayV2.__init__
\* ------------------------------------------------------------------------
RelayInit ==
    /\ client_writer = "none"
    /\ client_connected = FALSE
    /\ remote_window = DEFAULT_WINDOW
    /\ bytes_in_flight = 0
    /\ bytes_received_unacked = 0
    /\ next_stream_id = 0
    /\ pending_streams = EmptyDict
    /\ stream_data = EmptyDict
    /\ master_fd = FALSE
    /\ send_lock = Free
    /\ lockq = <<>>
    /\ window_available = TRUE
    /\ futs = <<>>
    /\ pc = [p \in Procs |-> IF p[1] = "hc" THEN "closed"
                              ELSE IF p[1] = "tool" THEN "idle" ELSE "off"]
    /\ snd = [p \in Procs |-> NoPkt]
    /\ inline = FALSE
    /\ tl = [t \in Tools |-> NoTool]
    /\ conn_open = [c \in Conns |-> FALSE]
    /\ accepts = 0
    /\ calls = 0
    /\ inbound = 0
    /\ env \in Scenarios
    /\ tres = [t \in Tools |-> NoResult]
    /\ openLog = [c \in Conns |-> <<>>]
    /\ resumed = {}
    /\ peer = [i \in StreamIds |-> NoPeer]
    /\ sessions = 0
    /\ first = [c \in Conns |-> NoFirst]
    /\ byes = {}
    /\ ping = [c \in Conns |-> NoPing]
    /\ wire = [c \in Conns |-> <<>>]
    /\ emitted = [t \in Tools |-> NoEmitted]
    /\ credit = [c \in Conns |-> NoCredit]

NoUnit == [op |-> "none", done |-> FALSE]
Init == RelayInit /\ unit = NoUnit

\* ------------------------------------------------------------------------
\* send_packet
\* ------------------------------------------------------------------------
\* a sender that keeps the last byte of the window free
NeedsCreditAtLimit(pkt) ==
    /\ pkt.type \in FlowControlled
    /\ bytes_in_flight + pkt.len >= remote_window

\* the while condition of send_packet: the packet must wait for credit
NeedsCredit(pkt) ==
    /\ pkt.type \in FlowControlled
    /\ bytes_in_flight + pkt.len > remote_window

\* self.bytes_in_flight += len(payload), for the flow-controlled types only
InFlightAfterSend(pkt) ==
    IF pkt.type \in FlowControlled THEN bytes_in_flight + pkt.len ELSE bytes_in_flight

\* client_writer.write / drain: the packet reaches the wire unless the
\* transport was closed, in which case drain raises ConnectionResetError
WriterOpen == client_writer # "none" /\ conn_open[client_writer]

\* the bookkeeping of the model for a packet written to the wire
LogPacket(pkt, ok) ==
    /\ openLog' = IF ok /\ pkt.type = "STREAM_OPEN"
                  THEN [openLog EXCEPT ![client_writer] = Append(@, pkt.sid)]
                  ELSE openLog
    /\ byes' = IF ok /\ pkt.type = "GOODBYE" THEN byes \cup {client_writer} ELSE byes

\* the packets a tool handler has written for its stream: a STREAM_OPEN
\* starts the list of a new stream, with the length of the content to write
EmittedAfter(p, pkt, ok) ==
    IF ok /\ p[1] = "tool"
    THEN [emitted EXCEPT ![p[2]] =
             IF pkt.type = "STREAM_OPEN"
             THEN [content |-> tl[p[2]].left, pkts |-> <<pkt>>]
             ELSE [content |-> @.content, pkts |-> Append(@.pkts, pkt)]]
    ELSE emitted

\* the increments of the WINDOW_UPDATE packets the dispatcher of a session
\* has written
CreditAfterSend(p, pkt, ok) ==
    IF ok /\ pkt.type = "WINDOW_UPDATE" /\ p[1] = "disp"
    THEN [credit EXCEPT ![p[2]].sent = @ + pkt.data[1]]
    ELSE credit

\* encode_packet: struct.pack('>BI', pkt_type, len(payload)) + payload
Header(pkt) == [type |-> pkt.type, len |-> pkt.len]
Encode(pkt) == <<Header(pkt), pkt>>

\* a writer that hands the header to the transport and leaves the payload
HeaderAlone(pkt) == <<Header(pkt)>>

\* self.client_writer.write(packet): the bytes one call of send_packet writes
Written(pkt) == Encode(pkt)

\* a header immediately followed by the payload it announces
WholePacket(w) == Len(w) = 2 /\ DOMAIN w[2] = DOMAIN NoPkt /\ w[1] = Header(w[2])
\* the transport appends; a whole packet at the end of the stream is a boundary
WireAfter(w, bytes) == IF w = <<>> \/ WholePacket(w) THEN bytes ELSE w \o bytes

\* a PONG written to the connection whose dispatcher sends it answers its PING
PingAfterSend(p, pkt, ok) ==
    IF ok /\ pkt.type = "PONG" /\ p = Disp(client_writer)
    THEN [ping EXCEPT ![client_writer] = NoPing]
    ELSE ping

\* a task enters send_packet with pkt: `async with self.send_lock`
\* (asyncio.Lock hands the lock over in FIFO order); q is the queue so far.
\* acquire() does not suspend a task that finds the lock free and nobody
\* waiting: inline then keeps every other task from running before its SendStep
EnterSend(p, pkt, q) ==
    /\ snd' = [snd EXCEPT ![p] = pkt]
    /\ lockq' = Append(q, p)
    /\ inline' = ((send_lock = Free \/ send_lock = p) /\ q = <<>>)

LeaveSend(p, q) ==
    /\ snd' = [snd EXCEPT ![p] = NoPkt]
    /\ lockq' = q
    /\ inline' = FALSE

\* ------------------------------------------------------------------------
\* Stream management
\* ------------------------------------------------------------------------
\* alloc_stream_id: the id handed out, and the counter after it
AllocatedId == next_stream_id
NextIdAfterAlloc == next_stream_id + 2

NewFuture == [st |-> "pending", status |-> 0, n |-> 0]

\* get_stream_data / get_stream_chunks: self.stream_data.pop(stream_id, [])
PoppedChunks(sid) == IF sid \in DOMAIN stream_data THEN stream_data[sid] ELSE <<>>
GetStreamData(sid) == Concat(PoppedChunks(sid))
GetStreamChunks(sid) == PoppedChunks(sid)

\* a tool handler returns (a result or an error) to handle_tool_call
ToolReturn(t, q, kind, via, sid, data) ==
    /\ pc' = [pc EXCEPT ![Tool(t)] = "idle"]
    /\ tl' = [tl EXCEPT ![t] = NoTool]
    /\ tres' = [tres EXCEPT ![t] = [kind |-> kind, via |-> via, sid |-> sid, data |-> data,
                                     own |-> tl[t].own]]
    /\ LeaveSend(Tool(t), q)

\* open_stream: allocate, register the future and the chunk list, send STREAM_OPEN
OpenStream(t, q, kind, left, leg, P, S) ==
    /\ Len(futs) < MaxStreams
    /\ next_stream_id' = NextIdAfterAlloc
    /\ futs' = Append(futs, NewFuture)
    /\ pending_streams' = DictPut(P, AllocatedId, Len(futs) + 1)
    /\ stream_data' = DictPut(S, AllocatedId, <<>>)
    /\ peer' = [peer EXCEPT ![AllocatedId] = NoPeer]
    /\ tl' = [tl EXCEPT ![t] = [kind |-> kind, sid |-> AllocatedId, fut |-> 0,
                                left |-> left, leg |-> leg, own |-> Len(futs) + 1]]
    /\ pc' = [pc EXCEPT ![Tool(t)] = "open"]
    /\ EnterSend(Tool(t), Pkt("STREAM_OPEN", 5, AllocatedId), q)
    /\ UNCHANGED tres

\* wait_stream up to its await: self.pending_streams[stream_id] raises KeyError
\* for an id that is no longer registered (the finally then pops nothing)
WaitStream(t, q) ==
    LET sid == tl[t].sid IN
    IF sid \in DOMAIN pending_streams
    THEN /\ pc' = [pc EXCEPT ![Tool(t)] = "wait"]
         /\ tl' = [tl EXCEPT ![t].fut = pending_streams[sid]]
         /\ LeaveSend(Tool(t), q)
         /\ UNCHANGED <<tres, futs, pending_streams, stream_data, next_stream_id, peer>>
    ELSE /\ ToolReturn(t, q, tl[t].kind, "keyerror", sid, <<>>)
         /\ UNCHANGED <<futs, pending_streams, stream_data, next_stream_id, peer>>

\* the next STREAM_DATA chunk of a write, or the STREAM_END(OK) after the last
\* a writer that sends what is left in one packet
WholeContent(left) == left

\* data[i:i + CHUNK_SIZE]
ChunkLen(left) == Min(left, CHUNK_SIZE)
SendNextChunk(t, q, left) ==
    /\ IF left > 0
       THEN /\ pc' = [pc EXCEPT ![Tool(t)] = "data"]
            /\ EnterSend(Tool(t), Pkt("STREAM_DATA", SID_LEN + ChunkLen(left), tl[t].sid), q)
       ELSE /\ pc' = [pc EXCEPT ![Tool(t)] = "end"]
            /\ EnterSend(Tool(t), Pkt("STREAM_END", 5, tl[t].sid), q)
    /\ tl' = [tl EXCEPT ![t].left = left]
    /\ UNCHANGED <<tres, futs, pending_streams, stream_data, next_stream_id, peer>>

\* what a tool handler does when its send_packet returns (ok) or raises
ToolAfterSend(t, ok, q) ==
    IF ~ok
    THEN /\ ToolReturn(t, q, tl[t].kind, "sendfailed", tl[t].sid, <<>>)
         /\ UNCHANGED <<futs, pending_streams, stream_data, next_stream_id, peer>>
    ELSE CASE pc[Tool(t)] = "open" /\ tl[t].kind \in {"read", "exec"} -> WaitStream(t, q)
           [] pc[Tool(t)] = "open" /\ tl[t].kind = "dfh" /\ tl[t].leg = 1 -> WaitStream(t, q)
           [] pc[Tool(t)] = "open" -> SendNextChunk(t, q, tl[t].left)
           [] pc[Tool(t)] = "data" -> SendNextChunk(t, q, tl[t].left - ChunkLen(tl[t].left))
           [] pc[Tool(t)] = "end" -> WaitStream(t, q)

\* tool_error / tool_success: the result object, its text as the list of its parts
ToolError(message) == [isError |-> TRUE, text |-> <<"Error: ", message>>]
ToolSuccess(text) == [isError |-> FALSE, text |-> <<text>>]
\* a CancelledError is no Exception: handle_tool_call returns nothing
NoResponse == [isError |-> TRUE, text |-> <<>>]

\* the ways a handler ends by raising an Exception, and str(e)
Raised == {"error", "timeout", "status", "exists", "keyerror", "sendfailed"}
Message(via) ==
    CASE via = "error" -> "Stream error"
      [] via = "timeout" -> "Stream timeout"
      [] via = "status" -> "failed"
      [] via = "exists" -> "Remote file already exists"
      [] via = "keyerror" -> "KeyError"
      [] via = "sendfailed" -> "Connection lost"

\* what handle_tool_call returns for the way r the call ended
Response(r) ==
    CASE r.via = "notconnected" -> ToolError("Client not connected")
      [] r.via \in Raised -> ToolError(Message(r.via))
      [] r.via = "cancelled" -> NoResponse
      [] OTHER -> ToolSuccess(r.data)

\* a dispatcher that runs the handler whether or not a client is connected
CheckSkipped == TRUE

\* `if not self.client_connected.is_set(): return self.tool_error(...)`
Connected == client_connected

\* handle_tool_call: the connected check, then the handler up to its first await
ToolCall(t) ==
    /\ UNCHANGED <<env, first, byes, ping, wire, unit, emitted, credit>>
    /\ ~inline
    /\ pc[Tool(t)] = "idle"
    /\ t = FirstFree({x \in Tools : pc[Tool(x)] = "idle"})
    /\ calls < env.calls
    /\ calls' = calls + 1
    /\ \E kind \in env.kinds, len \in WriteLensIn(env) :
        IF ~Connected
        THEN /\ ToolReturn(t, lockq, kind, "notconnected", 0, <<>>)
             /\ UNCHANGED <<futs, pending_streams, stream_data, next_stream_id, peer>>
        ELSE OpenStream(t, lockq, kind, IF kind = "write" THEN len ELSE 0,
                        1, pending_streams, stream_data)
    /\ UNCHANGED <<client_writer, client_connected, remote_window, bytes_received_unacked,
                   master_fd, send_lock, window_available, bytes_in_flight, openLog, resumed,
                   conn_open, accepts, inbound, sessions>>

\* a handler that takes the failed stream for a finished one and opens its
\* next stream
OpensNextStream(t) ==
    \E len \in WriteLens :
        OpenStream(t, lockq, tl[t].kind, len, 2, DictPop(pending_streams, tl[t].sid),
                   DictPop(stream_data, tl[t].sid))

\* the await of wait_stream raises the exception of handle_stream_error: the
\* finally pops the id, the handler ends, handle_tool_call returns tool_error
StreamErrorRaised(t) ==
    /\ ToolReturn(t, lockq, tl[t].kind, "error", tl[t].sid, <<>>)
    /\ pending_streams' = DictPop(pending_streams, tl[t].sid)
    /\ UNCHANGED <<futs, stream_data, next_stream_id, peer>>

\* wait_stream after its await, and the rest of the handler
ToolResume(t) ==
    LET f == tl[t].fut
        sid == tl[t].sid
        P == DictPop(pending_streams, sid)
        kind == tl[t].kind
    IN
    /\ UNCHANGED <<env, first, byes, ping, wire, unit, emitted, credit>>
    /\ ~inline
    /\ pc[Tool(t)] = "wait"
    /\ futs[f].st # "pending"
    /\ CASE futs[f].st = "exception" -> StreamErrorRaised(t)
         [] futs[f].st = "cancelled" ->
              /\ ToolReturn(t, lockq, kind, "cancelled", sid, <<>>)
              /\ pending_streams' = P
              /\ UNCHANGED <<futs, stream_data, next_stream_id, peer>>
         [] futs[f].st = "result" /\ kind = "dfh" /\ tl[t].leg = 1 ->
              \* download_from_host: no status check on the FILE_EXISTS leg
              IF GetStreamData(sid) # <<>> /\ GetStreamData(sid)[1] # 0
              THEN /\ ToolReturn(t, lockq, kind, "exists", sid, GetStreamData(sid))
                   /\ pending_streams' = P
                   /\ stream_data' = DictPop(stream_data, sid)
                   /\ UNCHANGED <<futs, next_stream_id, peer>>
              ELSE \E len \in WriteLens :
                       OpenStream(t, lockq, kind, len, 2, P, DictPop(stream_data, sid))
         [] futs[f].st = "result" /\ ~(kind = "dfh" /\ tl[t].leg = 1)
                /\ futs[f].status # STATUS_OK ->
              /\ ToolReturn(t, lockq, kind, "status", sid, <<>>)
              /\ pending_streams' = P
              /\ UNCHANGED <<futs, stream_data, next_stream_id, peer>>
         [] futs[f].st = "result" /\ ~(kind = "dfh" /\ tl[t].leg = 1)
                /\ futs[f].status = STATUS_OK ->
              /\ pending_streams' = P
              /\ UNCHANGED <<futs, next_stream_id, peer>>
              /\ CASE kind = "read" ->
                        /\ ToolReturn(t, lockq, kind, "end", sid, GetStreamData(sid))
                        /\ stream_data' = DictPop(stream_data, sid)
                   [] kind = "exec" ->
                        /\ ToolReturn(t, lockq, kind, "end", sid, GetStreamChunks(sid))
                        /\ stream_data' = DictPop(stream_data, sid)
                   [] OTHER ->
                        /\ ToolReturn(t, lockq, kind, "end", sid, <<>>)
                        /\ UNCHANGED stream_data
    /\ UNCHANGED <<client_writer, client_connected, remote_window, bytes_received_unacked,
                   master_fd, send_lock, window_available, bytes_in_flight, openLog, resumed,
                   conn_open, accepts, calls, inbound, sessions>>

\* asyncio.wait_for gives up: the future is cancelled, the finally pops the id
TimedOutFuture(fu) == [fu EXCEPT !.st = "cancelled", !.n = @ + 1]
RegistryAfterTimeout(sid) == DictPop(pending_streams, sid)

ToolTimeout(t) ==
    LET f == tl[t].fut IN
    /\ UNCHANGED <<env, first, byes, ping, wire, unit, emitted, credit>>
    /\ ~inline
    /\ pc[Tool(t)] = "wait"
    /\ futs[f].st = "pending"
    /\ futs' = [futs EXCEPT ![f] = TimedOutFuture(@)]
    /\ pending_streams' = RegistryAfterTimeout(tl[t].sid)
    /\ ToolReturn(t, lockq, tl[t].kind, "timeout", tl[t].sid, <<>>)
    /\ UNCHANGED <<stream_data, next_stream_id, peer>>
    /\ UNCHANGED <<client_writer, client_connected, remote_window, bytes_received_unacked,
                   master_fd, send_lock, window_available, bytes_in_flight, openLog, resumed,
                   conn_open, accepts, calls, inbound, sessions>>

\* ------------------------------------------------------------------------
\* handle_client
\* ------------------------------------------------------------------------
\* the first packet of a connection, as far as the handshake reads it
FirstPackets ==
    {[type |-> "HELLO", len |-> 6, version |-> PROTOCOL_VERSION, window |-> w] :
        w \in HelloWindows}
    \cup {[type |-> "HELLO", len |-> 6, version |-> 1, window |-> 1024],
          [type |-> "HELLO", len |-> 2, version |-> PROTOCOL_VERSION, window |-> 0],
          [type |-> "PING", len |-> 0, version |-> 0, window |-> 0],
          [type |-> "HELLO", len |-> MAX_PAYLOAD + 1, version |-> PROTOCOL_VERSION,
           window |-> 1024]}

\* the first packets a peer sends in an environment
FirstPacketsIn(e) ==
    IF e.name = "chunks"
    THEN {[type |-> "HELLO", len |-> 6, version |-> PROTOCOL_VERSION, window |-> w] :
             w \in LongWindows}
    ELSE FirstPackets

\* a receiver that turns away the largest payload too
AtLeastMax(length) == length >= MAX_PAYLOAD

\* recv_packet: `if length > MAX_PAYLOAD: raise ValueError`
TooLarge(length) == length > MAX_PAYLOAD

HelloAccepted(pkt) ==
    /\ pkt.type = "HELLO"
    /\ pkt.len >= 6
    /\ pkt.version = PROTOCOL_VERSION

toolState == <<tl, futs, tres, peer, calls, inbound>>

\* asyncio.start_server calls handle_client for every connection accepted
Accept(c) ==
    /\ UNCHANGED <<env, unit, emitted>>
    /\ credit' = [credit EXCEPT ![c] = NoCredit]
    /\ first' = [first EXCEPT ![c] = NoFirst]
    /\ byes' = byes \ {c}
    /\ ping' = [ping EXCEPT ![c] = NoPing]
    /\ wire' = [wire EXCEPT ![c] = <<>>]
    /\ ~inline
    /\ pc[Hc(c)] = "closed"
    /\ c = FirstFree({x \in Conns : pc[Hc(x)] = "closed"})
    /\ accepts < env.accepts
    /\ env.overlap \/ \A x \in Conns : pc[Hc(x)] = "closed"
    /\ accepts' = accepts + 1
    /\ client_writer' = c
    /\ conn_open' = [conn_open EXCEPT ![c] = TRUE]
    /\ openLog' = [openLog EXCEPT ![c] = <<>>]
    /\ UNCHANGED resumed
    /\ pc' = [pc EXCEPT ![Hc(c)] = "hello"]
    /\ UNCHANGED <<client_connected, remote_window, bytes_received_unacked, next_stream_id,
                   pending_streams, stream_data, master_fd, send_lock, lockq,
                   window_available, bytes_in_flight, snd, inline, toolState, sessions>>

\* the handshake: recv_packet, the checks, and the first await of the reply
Hello(c) ==
    /\ UNCHANGED <<env, byes, ping, wire, unit, emitted, credit>>
    /\ ~inline
    /\ pc[Hc(c)] = "hello"
    /\ \/ \E pkt \in FirstPacketsIn(env) :
            /\ first' = [first EXCEPT ![c] = pkt]
            /\ IF TooLarge(pkt.len)
               THEN \* recv_packet raises ValueError: `except Exception`, then finally
                    /\ pc' = [pc EXCEPT ![Hc(c)] = "fin"]
                    /\ UNCHANGED <<remote_window, snd, inline, lockq>>
               ELSE IF HelloAccepted(pkt)
               THEN /\ remote_window' = pkt.window
                    /\ pc' = [pc EXCEPT ![Hc(c)] = "ack"]
                    /\ EnterSend(Hc(c), Pkt("HELLO_ACK", 6, 0), lockq)
               ELSE /\ pc' = [pc EXCEPT ![Hc(c)] = "bye"]
                    /\ EnterSend(Hc(c), Pkt("GOODBYE", 1, 0), lockq)
                    /\ UNCHANGED remote_window
       \/ \* recv_packet raises IncompleteReadError: the peer closed
          /\ pc' = [pc EXCEPT ![Hc(c)] = "fin"]
          /\ UNCHANGED <<remote_window, snd, inline, lockq, first>>
    /\ UNCHANGED <<client_writer, client_connected, bytes_received_unacked, next_stream_id,
                   pending_streams, stream_data, master_fd, send_lock,
                   window_available, bytes_in_flight, openLog, resumed, conn_open, accepts,
                   toolState, sessions>>

\* after send_packet(HELLO_ACK) / send_goodbye returned or raised
HcAfterSend(c, ok, q) ==
    /\ LeaveSend(Hc(c), q)
    /\ IF pc[Hc(c)] = "ack" /\ ok
       THEN \* client_connected.set(), spawn_claude(), the three tasks
            /\ client_connected' = TRUE
            /\ master_fd' = TRUE
            /\ sessions' = sessions + 1
            /\ pc' = [pc EXCEPT ![Hc(c)] = "run", ![Disp(c)] = "recv", ![Pty(c)] = "read",
                                 ![Term(c)] = "get"]
       ELSE /\ pc' = [pc EXCEPT ![Hc(c)] = "fin"]
            /\ UNCHANGED <<client_connected, master_fd, sessions>>
    /\ UNCHANGED <<tl, futs, tres, peer, pending_streams, stream_data, next_stream_id>>

\* task.cancel(): a cancelled task leaves send_packet, releasing the lock it
\* holds or its place in the queue
\* a task that returned ("done"), left its loop on an exception of a handler
\* ("failed") or on the ValueError of recv_packet ("toolarge")
Over(x) == pc[x] \in {"done", "failed", "toolarge"}
CancelledTasks(c) == {x \in {Disp(c), Pty(c), Term(c)} : ~Over(x)}

\* asyncio.wait(FIRST_COMPLETED) returns; the pending tasks are cancelled
TasksDone(c) ==
    /\ UNCHANGED <<env, first, byes, ping, wire, unit, emitted, credit>>
    /\ ~inline
    /\ pc[Hc(c)] = "run"
    /\ Over(Disp(c)) \/ Over(Pty(c)) \/ Over(Term(c))
    /\ pc' = [x \in Procs |-> IF x = Hc(c) THEN "fin"
                               ELSE IF x \in CancelledTasks(c) THEN "done" ELSE pc[x]]
    /\ snd' = [x \in Procs |-> IF x \in CancelledTasks(c) THEN NoPkt ELSE snd[x]]
    /\ UNCHANGED inline
    /\ lockq' = SelectSeq(lockq, LAMBDA x : x \notin CancelledTasks(c))
    /\ send_lock' = IF send_lock \in CancelledTasks(c) THEN Free ELSE send_lock
    /\ UNCHANGED <<relayVars, window_available, bytes_in_flight, openLog, resumed, futs, tl,
                   conn_open, accepts, calls, inbound, obsVars>>

\* a cleanup that leaves the pending futures registered
RegistryKept == pending_streams

\* cleanup(): what it leaves in the registry and the id counter
CleanupPending == EmptyDict
CleanupStreamData == EmptyDict
CleanupNextId == 0
\* cleanup() does not touch the futures
CleanupFutures == futs
\* nor the flow-control counters
CleanupInFlight == bytes_in_flight

\* finally: cleanup(), client_connected.clear(), writer.close()
Finally(c) ==
    /\ UNCHANGED <<env, first, byes, ping, wire, unit, emitted, credit>>
    /\ ~inline
    /\ pc[Hc(c)] = "fin"
    /\ master_fd' = FALSE
    /\ pending_streams' = CleanupPending
    /\ stream_data' = CleanupStreamData
    /\ next_stream_id' = CleanupNextId
    /\ futs' = CleanupFutures
    /\ bytes_in_flight' = CleanupInFlight
    /\ client_connected' = FALSE
    /\ conn_open' = [conn_open EXCEPT ![c] = FALSE]
    /\ pc' = [pc EXCEPT ![Hc(c)] = "closed"]
    /\ UNCHANGED <<client_writer, remote_window, bytes_received_unacked, send_lock, lockq,
                   window_available, snd, inline, openLog, resumed, tl, accepts, calls,
                   inbound, obsVars>>

\* ------------------------------------------------------------------------
\* pty_to_client
\* ------------------------------------------------------------------------
PtyRead(c) ==
    /\ UNCHANGED <<env, first, byes, ping, wire, unit, emitted, credit>>
    /\ ~inline
    /\ pc[Pty(c)] = "read"
    /\ \/ \* read_pty returned data: send_packet(PKT_TERM_OUTPUT, data)
          /\ master_fd
          /\ env.pty
          /\ \E n \in PtyLens : EnterSend(Pty(c), Pkt("TERM_OUTPUT", n, 0), lockq)
          /\ pc' = [pc EXCEPT ![Pty(c)] = "send"]
       \/ \* read_pty returned None (the assistant is gone) or raised
          \* (master_fd is None): break
          /\ pc' = [pc EXCEPT ![Pty(c)] = "done"]
          /\ UNCHANGED <<snd, inline, lockq>>
    /\ UNCHANGED <<relayVars, send_lock, window_available, bytes_in_flight, openLog, resumed,
                   futs, tl, conn_open, accepts, calls, inbound, obsVars>>

TaskAfterSend(p, ok, q) ==
    /\ LeaveSend(p, q)
    /\ pc' = [pc EXCEPT ![p] = IF ok THEN (IF p[1] = "disp" THEN "recv" ELSE "read")
                                ELSE "done"]
    /\ UNCHANGED <<tl, futs, tres, peer, pending_streams, stream_data, next_stream_id,
                   client_connected, master_fd, sessions>>

\* ------------------------------------------------------------------------
\* send_packet, from the lock to the write
\* ------------------------------------------------------------------------
AfterSend(p, ok, q) ==
    CASE p[1] = "tool" -> /\ ToolAfterSend(p[2], ok, q)
                          /\ UNCHANGED <<client_connected, master_fd, sessions>>
      [] p[1] = "hc" -> HcAfterSend(p[2], ok, q)
      [] OTHER -> TaskAfterSend(p, ok, q)

SendStep(p) ==
    LET grant == send_lock = Free /\ lockq # <<>> /\ Head(lockq) = p
        wake == send_lock = p /\ window_available
        q == IF grant THEN Tail(lockq) ELSE lockq
        pkt == snd[p]
    IN
    /\ UNCHANGED <<env, first, unit>>
    /\ grant \/ wake
    /\ IF NeedsCredit(pkt)
       THEN \* window_available.clear(); await window_available.wait(), lock held
            /\ send_lock' = p
            /\ window_available' = FALSE
            /\ lockq' = q
            /\ UNCHANGED <<relayVars, bytes_in_flight, snd, openLog, resumed, taskVars, obsVars,
                           byes, ping, wire, emitted, credit>>
            /\ inline' = FALSE
       ELSE /\ send_lock' = Free
            /\ bytes_in_flight' = InFlightAfterSend(pkt)
            /\ LogPacket(pkt, WriterOpen)
            /\ emitted' = EmittedAfter(p, pkt, WriterOpen)
            /\ credit' = CreditAfterSend(p, pkt, WriterOpen)
            /\ ping' = PingAfterSend(p, pkt, WriterOpen)
            /\ wire' = IF WriterOpen
                       THEN [wire EXCEPT ![client_writer] = WireAfter(@, Written(pkt))]
                       ELSE wire
            /\ resumed' = IF wake THEN resumed \cup {p} ELSE resumed
            /\ AfterSend(p, WriterOpen, q)
            /\ UNCHANGED <<client_writer, remote_window, bytes_received_unacked,
                           window_available, conn_open, accepts, calls, inbound>>

\* ------------------------------------------------------------------------
\* packet_dispatcher
\* ------------------------------------------------------------------------
\* ack_received_bytes: the accumulator after count more bytes, whether a
\* WINDOW_UPDATE goes out, and the accumulator after that
UnackedAfter(count) == bytes_received_unacked + count
\* an accumulator that must pass the threshold
UpdateLate(count) == UnackedAfter(count) > WINDOW_UPDATE_THRESHOLD

\* `if self.bytes_received_unacked >= WINDOW_UPDATE_THRESHOLD`
UpdateDue(count) == UnackedAfter(count) >= WINDOW_UPDATE_THRESHOLD
UnackedLeft(count) == IF UpdateDue(count) THEN 0 ELSE UnackedAfter(count)

\* struct.pack('>I', increment)
WindowUpdate(increment) == [Pkt("WINDOW_UPDATE", 4, 0) EXCEPT !.data = <<increment>>]

\* tasks: where the tasks are when ack_received_bytes is called
AckReceivedBytes(c, count, tasks) ==
    /\ bytes_received_unacked' = UnackedLeft(count)
    /\ credit' = [credit EXCEPT ![c].rcvd = @ + count]
    /\ IF UpdateDue(count)
       THEN /\ EnterSend(Disp(c), WindowUpdate(UnackedAfter(count)), lockq)
            /\ pc' = [tasks EXCEPT ![Disp(c)] = "send"]
       ELSE /\ pc' = tasks
            /\ UNCHANGED <<snd, inline, lockq>>

\* handle_stream_data: appended only while the id is registered
StreamDataAfter(sid, d) ==
    IF sid \in DOMAIN stream_data
    THEN [stream_data EXCEPT ![sid] = Append(@, d)]
    ELSE stream_data

\* what the peer has sent for an id the relay has registered
PeerAfterData(sid, d) ==
    IF sid \in DOMAIN stream_data
    THEN IF peer[sid].ended
         THEN [peer EXCEPT ![sid].late = TRUE]
         ELSE [peer EXCEPT ![sid].data = Append(@, d)]
    ELSE peer
PeerAfterEnd(sid) ==
    IF sid \in DOMAIN pending_streams \/ sid \in DOMAIN stream_data
    THEN [peer EXCEPT ![sid].ended = TRUE]
    ELSE peer

RecvStreamData(c) ==
    \E sid \in StreamIds, d \in DataChunks :
        /\ sid \in DOMAIN stream_data => Len(stream_data[sid]) < MaxChunks
        /\ stream_data' = StreamDataAfter(sid, d)
        /\ peer' = PeerAfterData(sid, d)
        /\ AckReceivedBytes(c, InPayloadLen(d), pc)
        /\ UNCHANGED <<client_writer, client_connected, remote_window, next_stream_id,
                       pending_streams, master_fd, send_lock, window_available,
                       bytes_in_flight, openLog, resumed, futs, tl, conn_open, accepts, calls,
                       tres, sessions>>

\* a future that takes a second result
SetAgain(sid) == TRUE

\* Future.set_result / set_exception raise InvalidStateError on a future that
\* is already done
Settable(sid) == futs[pending_streams[sid]].st = "pending"
ResultSet(fu, status) == [fu EXCEPT !.st = "result", !.status = status, !.n = @ + 1]
ExceptionSet(fu) == [fu EXCEPT !.st = "exception", !.n = @ + 1]

\* handle_stream_end: `if stream_id in self.pending_streams: set_result(...)`
EndTouchesFuture(sid) == sid \in DOMAIN pending_streams

RecvStreamEnd(c) ==
    \E sid \in StreamIds, status \in {STATUS_OK, STATUS_ERROR} :
        /\ peer' = PeerAfterEnd(sid)
        /\ IF EndTouchesFuture(sid)
           THEN IF Settable(sid)
                THEN /\ futs' = [futs EXCEPT ![pending_streams[sid]] = ResultSet(@, status)]
                     /\ UNCHANGED pc
                ELSE \* InvalidStateError leaves the loop by `except Exception: break`
                     /\ pc' = [pc EXCEPT ![Disp(c)] = "failed"]
                     /\ UNCHANGED futs
           ELSE UNCHANGED <<futs, pc>>
        /\ UNCHANGED <<relayVars, sendVars, tl, conn_open, accepts, calls, tres, sessions>>

\* handle_stream_error: `if stream_id in self.pending_streams: set_exception(...)`
RecvStreamError(c) ==
    \E sid \in StreamIds :
        /\ peer' = PeerAfterEnd(sid)
        /\ IF EndTouchesFuture(sid)
           THEN IF Settable(sid)
                THEN /\ futs' = [futs EXCEPT ![pending_streams[sid]] = ExceptionSet(@)]
                     /\ UNCHANGED pc
                ELSE /\ pc' = [pc EXCEPT ![Disp(c)] = "failed"]
                     /\ UNCHANGED futs
           ELSE UNCHANGED <<futs, pc>>
        /\ UNCHANGED <<relayVars, sendVars, tl, conn_open, accepts, calls, tres, sessions>>

\* PKT_WINDOW_UPDATE: bytes_in_flight = max(0, bytes_in_flight - increment)
InFlightAfterUpdate(increment) == Max(0, bytes_in_flight - increment)

\* a dispatcher that returns the credit and leaves the event as it was
EventLeftAsItWas == window_available

\* self.window_available.set(), on every WINDOW_UPDATE
EventAfterUpdate == TRUE

RecvWindowUpdate(c) ==
    \E increment \in Increments :
        /\ bytes_in_flight' = InFlightAfterUpdate(increment)
        /\ window_available' = EventAfterUpdate
        /\ UNCHANGED <<relayVars, send_lock, lockq, snd, inline, openLog, resumed, futs,
                       pc, tl, conn_open,
                       accepts, calls, obsVars>>

\* PKT_PING: send_packet(PKT_PONG, payload)
Pong(payload) == [Pkt("PONG", Len(payload), 0) EXCEPT !.data = payload]

RecvPing(c) ==
    \E payload \in PingPayloads :
    /\ ping' = [ping EXCEPT ![c] = [out |-> TRUE, data |-> payload]]
    /\ EnterSend(Disp(c), Pong(payload), lockq)
    /\ pc' = [pc EXCEPT ![Disp(c)] = "send"]
    /\ UNCHANGED <<relayVars, send_lock, window_available, bytes_in_flight, openLog, resumed,
                   futs, tl, conn_open, accepts, calls, obsVars>>

\* await self.packet_queue.put(...): terminal_handler, if it waits in get(),
\* has a packet to take (the peer sends terminal input only in the
\* environments in which one connection follows the other, so the queue is
\* that of the dispatcher's own session)
Queued(c) == IF pc[Term(c)] = "get" THEN [pc EXCEPT ![Term(c)] = "got"] ELSE pc

\* PKT_TERM_INPUT: queued for terminal_handler, then acknowledged
RecvTermInput(c) ==
    \E n \in TermInputLens :
        /\ AckReceivedBytes(c, n, Queued(c))
        /\ UNCHANGED <<client_writer, client_connected, remote_window, next_stream_id,
                       pending_streams, stream_data, master_fd, send_lock,
                       window_available, bytes_in_flight, openLog, resumed, futs, tl, conn_open,
                       accepts, calls, obsVars>>

\* PKT_GOODBYE, EOF (IncompleteReadError) or any other exception: break
RecvGoodbye(c) ==
    /\ pc' = [pc EXCEPT ![Disp(c)] = "done"]
    /\ UNCHANGED <<relayVars, sendVars, futs, tl, conn_open, accepts, calls, obsVars>>

\* recv_packet raises ValueError for a length above MAX_PAYLOAD:
\* `except Exception: break`
RecvTooLarge(c) ==
    /\ TooLarge(MAX_PAYLOAD + 1)
    /\ pc' = [pc EXCEPT ![Disp(c)] = "toolarge"]
    /\ UNCHANGED <<relayVars, sendVars, futs, tl, conn_open, accepts, calls, obsVars>>

\* terminal_handler, woken with packets in the queue: it takes them one after
\* the other without suspending; os.write puts each payload to the master, or
\* raises (a full buffer, a closed PTY) and `except Exception: break` ends the
\* task
TerminalTask(c) ==
    /\ UNCHANGED <<env, first, byes, ping, wire, unit, emitted, credit>>
    /\ ~inline
    /\ pc[Term(c)] = "got"
    /\ \/ pc' = [pc EXCEPT ![Term(c)] = "get"]
       \/ master_fd /\ pc' = [pc EXCEPT ![Term(c)] = "failed"]
    /\ UNCHANGED <<relayVars, sendVars, futs, tl, conn_open, accepts, calls, inbound, obsVars>>

Dispatch(c) ==
    /\ pc[Disp(c)] = "recv"
    /\ UNCHANGED <<env, first, byes, wire, unit, emitted>>
    /\ ~inline
    /\ \/ /\ inbound < env.inbound
          /\ inbound' = inbound + 1
          /\ \/ "STREAM_DATA" \in env.pkts /\ RecvStreamData(c) /\ UNCHANGED ping
             \/ "STREAM_END" \in env.pkts /\ RecvStreamEnd(c) /\ UNCHANGED <<ping, credit>>
             \/ "STREAM_ERROR" \in env.pkts /\ RecvStreamError(c) /\ UNCHANGED <<ping, credit>>
             \/ "WINDOW_UPDATE" \in env.pkts /\ RecvWindowUpdate(c) /\ UNCHANGED <<ping, credit>>
             \/ "PING" \in env.pkts /\ RecvPing(c) /\ UNCHANGED credit
             \/ "TERM_INPUT" \in env.pkts /\ RecvTermInput(c) /\ UNCHANGED ping
       \/ /\ RecvGoodbye(c)
          /\ UNCHANGED <<inbound, ping, credit>>
       \/ /\ "TOOLARGE" \in env.pkts
          /\ RecvTooLarge(c)
          /\ UNCHANGED <<inbound, ping, credit>>

\* ------------------------------------------------------------------------
\* The relay
\* ------------------------------------------------------------------------
Next ==
    \/ \E c \in Conns : Accept(c)
    \/ \E c \in Conns : Hello(c)
    \/ \E c \in Conns : TasksDone(c)
    \/ \E c \in Conns : Finally(c)
    \/ \E c \in Conns : PtyRead(c)
    \/ \E c \in Conns : Dispatch(c)
    \/ \E c \in Conns : TerminalTask(c)
    \/ \E p \in Procs : SendStep(p)
    \/ \E t \in Tools : ToolCall(t)
    \/ \E t \in Tools : ToolResume(t)
    \/ \E t \in Tools : ToolTimeout(t)

Spec == Init /\ [][Next]_vars

TypeOK ==
    /\ bytes_in_flight \in Nat
    /\ next_stream_id \in Nat
    /\ DOMAIN pending_streams \subseteq StreamIds
    /\ DOMAIN stream_data \subseteq StreamIds
    /\ resumed \subseteq Procs
    /\ \A p \in Procs :
          snd[p].type # "none" <=> (p = send_lock \/ \E i \in 1..Len(lockq) : lockq[i] = p)
    /\ inline => (send_lock = Free /\ Len(lockq) = 1)

\* ------------------------------------------------------------------------
\* The computations of the tool handlers, applied to bounded inputs
\* ------------------------------------------------------------------------
\* bytes are numbers 0..255; a text is the list of its characters and literal
\* pieces.  bytes.decode('utf-8', errors='replace') on the bytes used here:
\* an ASCII byte is its character, EF BF BD is U+FFFD, and 0xFF is no UTF-8
\* and becomes U+FFFD too
REPLACEMENT == "U+FFFD"
ReplacementBytes == <<239, 191, 189>>
Char(b) == CASE b = 97 -> "a" [] b = 98 -> "b" [] b = 10 -> "\n" [] b = 120 -> "x"
               [] b = 121 -> "y" [] OTHER -> REPLACEMENT
RECURSIVE Decode(_)
Decode(bytes) ==
    IF bytes = <<>> THEN <<>>
    ELSE IF Len(bytes) >= 3 /\ SubSeq(bytes, 1, 3) = ReplacementBytes
         THEN <<REPLACEMENT>> \o Decode(SubSeq(bytes, 4, Len(bytes)))
         ELSE <<Char(Head(bytes))>> \o Decode(Tail(bytes))

\* str.encode('utf-8')
CharBytes(c) == CASE c = "a" -> <<97>> [] c = "b" -> <<98>> [] c = "\n" -> <<10>>
                  [] c = "x" -> <<120>> [] c = "y" -> <<121>>
                  [] c = REPLACEMENT -> ReplacementBytes
RECURSIVE EncodeUtf8(_)
EncodeUtf8(text) ==
    IF text = <<>> THEN <<>> ELSE CharBytes(Head(text)) \o EncodeUtf8(Tail(text))

\* '\n'.join(parts)
RECURSIVE Join(_)
Join(parts) ==
    IF parts = <<>> THEN <<>>
    ELSE IF Len(parts) = 1 THEN parts[1]
    ELSE parts[1] \o <<"\n">> \o Join(Tail(parts))

\* struct.unpack('>i', extra[:4])[0]: big-endian, signed, 32 bits
TopByte(b) == IF b >= 128 THEN b - 256 ELSE b
Signed32(b) == ((TopByte(b[1]) * 256 + b[2]) * 256 + b[3]) * 256 + b[4]
ExitCode(extra) == IF Len(extra) >= 4 THEN Signed32(extra) ELSE 0

\* a renderer that goes by the last byte of a chunk
LastByte(chunk) == chunk[Len(chunk)]

\* tool_execute_command: channel = chunk[0]
Channel(chunk) == chunk[1]

\* the loop over the chunks: empty chunks are skipped, channel 0x02 is stderr,
\* every other channel is stdout
RECURSIVE StdoutParts(_), StderrParts(_)
StdoutParts(chunks) ==
    IF chunks = <<>> THEN <<>>
    ELSE IF Len(Head(chunks)) >= 1 /\ Channel(Head(chunks)) # 2
         THEN <<Tail(Head(chunks))>> \o StdoutParts(Tail(chunks))
         ELSE StdoutParts(Tail(chunks))
StderrParts(chunks) ==
    IF chunks = <<>> THEN <<>>
    ELSE IF Len(Head(chunks)) >= 1 /\ Channel(Head(chunks)) = 2
         THEN <<Tail(Head(chunks))>> \o StderrParts(Tail(chunks))
         ELSE StderrParts(Tail(chunks))

\* tool_execute_command after wait_stream returned (STATUS_OK, extra)
RenderExec(chunks, extra) ==
    LET stdout == Decode(Concat(StdoutParts(chunks)))
        stderr == Decode(Concat(StderrParts(chunks)))
        exit_code == ExitCode(extra)
        parts == (IF stdout # <<>> THEN <<stdout>> ELSE <<>>)
                 \o (IF stderr # <<>> THEN << <<"[stderr]\n">> \o stderr >> ELSE <<>>)
                 \o (IF exit_code # 0
                     THEN << <<"[exit status: ", ToString(exit_code), "]">> >> ELSE <<>>)
    IN ToolSuccess(IF Join(parts) # <<>> THEN Join(parts) ELSE <<"(no output)">>)

\* the inputs: chunk lists of an EXEC stream and the extra bytes of its END
MaxExecChunks == 3
ExecChunkSet == {<<>>, <<1>>, <<1, 97>>, <<2, 98>>, <<2, 97, 255>>, <<3, 98>>}
ExecChunkLists == UNION {[1..n -> ExecChunkSet] : n \in 0..MaxExecChunks}
ExecExtras == {<<>>, <<0, 0, 0, 0>>, <<0, 0, 0, 3>>, <<255, 255, 255, 255>>}


\* ------------------------------------------------------------------------
\* Paths.  A path is the list of its characters.
\* ------------------------------------------------------------------------
StartsWith(s, prefix) ==
    Len(s) >= Len(prefix) /\ SubSeq(s, 1, Len(prefix)) = prefix

\* str.split('/')
RECURSIVE Split(_)
Split(s) ==
    IF \A i \in DOMAIN s : s[i] # "/" THEN <<s>>
    ELSE LET i == CHOOSE k \in DOMAIN s : s[k] = "/" /\ \A j \in 1..(k - 1) : s[j] # "/"
         IN <<SubSeq(s, 1, i - 1)>> \o Split(SubSeq(s, i + 1, Len(s)))

\* '/'.join(comps)
RECURSIVE JoinPath(_)
JoinPath(comps) ==
    IF comps = <<>> THEN <<>>
    ELSE IF Len(comps) = 1 THEN comps[1]
    ELSE comps[1] \o <<"/">> \o JoinPath(Tail(comps))

DotDot == <<".", ".">>

\* posixpath.normpath: the loop over the components
RECURSIVE NormComps(_, _, _)
NormComps(comps, new_comps, initial_slashes) ==
    IF comps = <<>> THEN new_comps
    ELSE LET comp == Head(comps)
             n == Len(new_comps)
         IN IF comp = <<>> \/ comp = <<".">>
            THEN NormComps(Tail(comps), new_comps, initial_slashes)
            ELSE IF \/ comp # DotDot
                    \/ (initial_slashes = 0 /\ n = 0)
                    \/ (n > 0 /\ new_comps[n] = DotDot)
            THEN NormComps(Tail(comps), Append(new_comps, comp), initial_slashes)
            ELSE IF n > 0
            THEN NormComps(Tail(comps), SubSeq(new_comps, 1, n - 1), initial_slashes)
            ELSE NormComps(Tail(comps), new_comps, initial_slashes)

\* posixpath.normpath
NormPath(path) ==
    IF path = <<>> THEN <<".">>
    ELSE LET initial_slashes ==
                 IF ~StartsWith(path, <<"/">>) THEN 0
                 ELSE IF StartsWith(path, <<"/", "/">>) /\ ~StartsWith(path, <<"/", "/", "/">>)
                      THEN 2 ELSE 1
             joined == JoinPath(NormComps(Split(path), <<>>, initial_slashes))
             out == [i \in 1..initial_slashes |-> "/"] \o joined
         IN IF out = <<>> THEN <<".">> ELSE out

\* posixpath.join(a, b)
PosixJoin(a, b) ==
    IF StartsWith(b, <<"/">>) THEN b
    ELSE IF a = <<>> \/ a[Len(a)] = "/" THEN a \o b
    ELSE a \o <<"/">> \o b

\* str.rstrip('/')
RECURSIVE RStrip(_)
RStrip(s) == IF s # <<>> /\ s[Len(s)] = "/" THEN RStrip(SubSeq(s, 1, Len(s) - 1)) ELSE s

\* os.path.expanduser for "~" and "~/..." (a "~name" of no known user stays)
ExpandUser(path, home) ==
    IF ~StartsWith(path, <<"~">>) THEN path
    ELSE IF Len(path) > 1 /\ path[2] # "/" THEN path
    ELSE LET out == RStrip(home) \o SubSeq(path, 2, Len(path))
         IN IF out = <<>> THEN <<"/">> ELSE out

\* RelayV2.resolve_path
ResolvePath(path, cwd) ==
    IF path = <<>> \/ StartsWith(path, <<"/">>)
    THEN (IF path # <<>> THEN path ELSE cwd)
    ELSE NormPath(PosixJoin(cwd, path))

\* self.host_base_dir = os.path.abspath(os.getcwd()), here /s/w
host_base_dir == <<"/", "s", "/", "w">>

\* RelayV2.resolve_host_path: the path it resolves to
ResolvedHostPath(path, home) ==
    LET expanded == ExpandUser(path, home)
    IN NormPath(IF StartsWith(expanded, <<"/">>) THEN expanded
                ELSE PosixJoin(host_base_dir, expanded))

\* a check that forgets the separator after the base
UnderBaseName(resolved) == StartsWith(resolved, host_base_dir)

\* RelayV2.resolve_host_path: the check that lets the resolved path through
UnderBase(resolved) ==
    StartsWith(resolved, host_base_dir \o <<"/">>) \/ resolved = host_base_dir

\* what a handler does up to its first await: it raises, or it opens a stream
Raises(message) == [raised |-> message, opened |-> "none"]
Opens(stream_type) == [raised |-> <<>>, opened |-> stream_type]

\* tool_read_file, tool_file_info, tool_remove_file up to open_stream
PathToolType(tool) ==
    CASE tool = "read_file" -> "FILE_READ"
      [] tool = "file_info" -> "FILE_STAT"
      [] tool = "remove_file" -> "REMOVE"
PathTool(tool, path_arg, cwd) ==
    LET path == ResolvePath(path_arg, cwd)
    IN IF path = <<>> THEN Raises(<<"path is required">>)
       ELSE Opens(PathToolType(tool))

\* tool_upload_to_host up to open_stream
UploadToHost(remote_arg, host_path_arg, overwrite, cwd, home, host_exists) ==
    LET remote_path == ResolvePath(remote_arg, cwd)
    IN IF remote_path = <<>> THEN Raises(<<"remote_path is required">>)
       ELSE IF host_path_arg = <<>> THEN Raises(<<"host_path is required">>)
       ELSE IF ~UnderBase(ResolvedHostPath(host_path_arg, home))
            THEN Raises(<<"Host path must be under ">> \o host_base_dir)
       ELSE IF host_exists /\ ~overwrite
            THEN Raises(<<"Host file already exists: ">>
                          \o ResolvedHostPath(host_path_arg, home)
                          \o <<" (use overwrite=true to replace)">>)
       ELSE Opens("FILE_READ")

\* tool_download_from_host up to open_stream
DownloadFromHost(remote_arg, host_path_arg, overwrite, cwd, home) ==
    LET remote_path == ResolvePath(remote_arg, cwd)
    IN IF host_path_arg = <<>> THEN Raises(<<"host_path is required">>)
       ELSE IF remote_path = <<>> THEN Raises(<<"remote_path is required">>)
       ELSE IF ~UnderBase(ResolvedHostPath(host_path_arg, home))
            THEN Raises(<<"Host path must be under ">> \o host_base_dir)
       ELSE IF ~overwrite THEN Opens("FILE_EXISTS")
       ELSE Opens("FILE_WRITE")

\* the inputs of the handlers
RemoteArgs == {<<>>, <<"f">>, <<"/", "f">>}
RemoteCwds == {<<>>, <<"/">>, <<"/", "u">>}
Homes == {<<"/", "h">>, <<"/", "s", "/", "w", "/", "h">>}
HostPaths ==
    { <<>>,
      <<"f">>,
      <<".", ".", "/", "f">>,
      <<"s", "/", ".", ".", "/", "f">>,
      <<"/", "f">>,
      <<"/", "s", "/", "w">>,
      <<"/", "s", "/", "w", "/", "f">>,
      <<"/", "s", "/", "w", "x">>,
      <<"/", "s", "/", "w", "/", ".", ".", "/", "w", "x", "/", "f">>,
      <<"/", "/", "s", "/", "w", "/", "f">>,
      <<"~">>,
      <<"~", "/", "f">> }
PathTools == {"read_file", "file_info", "remove_file"}
HostTools == {"upload_to_host", "download_from_host"}

\* ------------------------------------------------------------------------
\* edit_file
\* ------------------------------------------------------------------------
\* str.count(sub) for a non-empty sub: occurrences from left to right, none
\* overlapping the one before
RECURSIVE Count(_, _)
Count(s, sub) ==
    IF Len(s) < Len(sub) THEN 0
    ELSE IF SubSeq(s, 1, Len(sub)) = sub
         THEN 1 + Count(SubSeq(s, Len(sub) + 1, Len(s)), sub)
         ELSE Count(Tail(s), sub)

\* str.replace(old, new, max) for a non-empty old
RECURSIVE Replace(_, _, _, _)
Replace(s, old, new, max) ==
    IF max = 0 \/ Len(s) < Len(old) THEN s
    ELSE IF SubSeq(s, 1, Len(old)) = old
         THEN new \o Replace(SubSeq(s, Len(old) + 1, Len(s)), old, new, max - 1)
         ELSE <<Head(s)>> \o Replace(Tail(s), old, new, max)

\* an editor that never minds several occurrences
NeverAmbiguous(count, replace_all) == FALSE

\* tool_edit_file: if count > 1 and not replace_all
Ambiguous(count, replace_all) == count > 1 /\ ~replace_all

\* tool_edit_file, the FILE_READ stream having ended with STATUS_OK and the
\* bytes `file`, the FILE_WRITE stream ending with STATUS_OK: the exception
\* raised, the streams opened, the bytes sent as STREAM_DATA, the text returned
EditFile(file, old_string, new_string, replace_all) ==
    LET content == Decode(file)
        count == Count(content, old_string)
        new_content == IF replace_all THEN Replace(content, old_string, new_string, count)
                       ELSE Replace(content, old_string, new_string, 1)
    IN IF old_string = <<>>
       THEN [raised |-> <<"old_string is required">>, opened |-> <<>>, data |-> <<>>,
             result |-> <<>>]
       ELSE IF count = 0
       THEN [raised |-> <<"old_string not found in file">>, opened |-> <<"FILE_READ">>,
             data |-> <<>>, result |-> <<>>]
       ELSE IF Ambiguous(count, replace_all)
       THEN [raised |-> <<"old_string found ", ToString(count),
                         " times. Use replace_all=true or provide more context.">>,
             opened |-> <<"FILE_READ">>, data |-> <<>>, result |-> <<>>]
       ELSE [raised |-> <<>>, opened |-> <<"FILE_READ", "FILE_WRITE">>,
             data |-> EncodeUtf8(new_content),
             result |-> IF replace_all
                        THEN <<"Replaced ", ToString(count), " occurrence(s)">>
                        ELSE <<"Edit successful">>]

\* the inputs: file contents, and the strings to find and to put
FileContents ==
    { <<>>, <<97>>, <<97, 98>>, <<97, 97>>, <<97, 98, 97>>, <<97, 97, 97>>,
      <<97, 255>>, <<98, 239, 191, 189>>, <<97, 10, 98>> }
EditStrings == {<<>>, <<"a">>, <<"b">>, <<"a", "a">>, <<"a", "b">>}

\* ------------------------------------------------------------------------
\* read_file
\* ------------------------------------------------------------------------
\* str.split('\n')
RECURSIVE SplitLines(_)
SplitLines(text) ==
    IF \A i \in DOMAIN text : text[i] # "\n" THEN <<text>>
    ELSE LET i == CHOOSE k \in DOMAIN text :
                      text[k] = "\n" /\ \A j \in 1..(k - 1) : text[j] # "\n"
         IN <<SubSeq(text, 1, i - 1)>> \o SplitLines(SubSeq(text, i + 1, Len(text)))

\* f"{n:6}": the number right-aligned in six columns
RECURSIVE Digits(_)
Digits(n) == IF n < 10 THEN 1 ELSE 1 + Digits(n \div 10)
Number6(n) == [i \in 1..(6 - Digits(n)) |-> " "] \o <<ToString(n)>>

\* line[:2000]
Truncated(line) == SubSeq(line, 1, Min(Len(line), 2000))

\* tool_read_file, the FILE_READ stream having ended with STATUS_OK and the
\* bytes `file`
FormatRead(file, offset, limit) ==
    LET lines == SplitLines(Decode(file))
        total == Len(lines)
        selected == SubSeq(lines, offset + 1, Min(offset + limit, total))
        formatted == Join([i \in 1..Len(selected) |->
                              Number6(i + offset) \o <<"\t">> \o Truncated(selected[i])])
        footer == IF offset + limit < total
                  THEN <<"\n\n[Lines ", ToString(offset + 1), "-",
                         ToString(offset + Len(selected)), " of ", ToString(total), "]">>
                  ELSE <<>>
    IN ToolSuccess(formatted \o footer)

\* the inputs: offset and limit of the call (0 and 2000 by default)
ReadOffsets == {0, 1}
ReadLimits == {1, 2000}

\* ------------------------------------------------------------------------
\* recv_packet
\* ------------------------------------------------------------------------
\* struct.unpack('>I', header[1:5])[0]: big-endian, unsigned, 32 bits
Unsigned32(b) == ((b[1] * 256 + b[2]) * 256 + b[3]) * 256 + b[4]

\* recv_packet on a stream that starts with the five bytes `header`: whether
\* it raises ValueError, and the number of bytes it has taken from the stream
RecvPacket(header) ==
    LET pkt_type == header[1]
        length == Unsigned32(SubSeq(header, 2, 5))
    IN IF TooLarge(length)
       THEN [raised |-> TRUE, pkt_type |-> pkt_type, taken |-> 5]
       ELSE [raised |-> FALSE, pkt_type |-> pkt_type, taken |-> 5 + length]

\* the inputs: packet types and the four bytes of the length field
\* PKT_HELLO, PKT_TERM_INPUT, PKT_STREAM_DATA
HeaderTypes == {0, 16, 33}
HeaderLengths ==
    { <<0, 0, 0, 0>>, <<0, 0, 0, 1>>, <<0, 255, 255, 255>>, <<1, 0, 0, 0>>,
      <<1, 0, 0, 1>>, <<127, 255, 255, 255>> }

\* ------------------------------------------------------------------------
\* Two edit_file calls on one remote path
\* ------------------------------------------------------------------------
\* the inputs: the file on the remote system and the arguments of the calls
SharedFiles == { <<97, 98>>, <<97, 97>>, <<97, 10, 98>> }
OldStrings == { <<>>, <<"a">>, <<"b">> }
NewStrings == { <<"x">>, <<"y">> }

EditCalls ==
    [pc : {"idle"}, old_string : OldStrings, new_string : NewStrings, replace_all : BOOLEAN,
     content : {<<>>}, data : {<<>>}, raised : {<<>>}, result : {<<>>}]

EditsInit ==
    /\ RelayInit
    /\ env.name = "flow"
    /\ \E file \in SharedFiles, args \in [Tools -> EditCalls] :
          unit = [op |-> "edits", done |-> FALSE, original |-> file, file |-> file,
                  writes |-> <<>>, calls |-> args]

EditRaises(t, message) ==
    unit' = [unit EXCEPT !.calls[t].pc = "done", !.calls[t].raised = message]

\* tool_edit_file from its call to its first await: the FILE_READ stream is
\* opened unless old_string is empty
EditOpenRead(t) ==
    /\ unit.op = "edits" /\ unit.calls[t].pc = "idle"
    /\ IF unit.calls[t].old_string = <<>>
       THEN EditRaises(t, <<"old_string is required">>)
       ELSE unit' = [unit EXCEPT !.calls[t].pc = "reading"]
    /\ UNCHANGED mainVars

\* the remote end serves the FILE_READ stream from the file as it is now, or
\* ends the stream with a status other than STATUS_OK
EditReadEnds(t) ==
    /\ unit.op = "edits" /\ unit.calls[t].pc = "reading"
    /\ \E status \in {STATUS_OK, STATUS_ERROR} :
          IF status # STATUS_OK
          THEN EditRaises(t, <<"Failed to read file">>)
          ELSE unit' = [unit EXCEPT !.calls[t].pc = "read", !.calls[t].content = unit.file]
    /\ UNCHANGED mainVars

\* an editor that reads the file anew when it comes to write
ReadAgain(t) == unit.file

\* tool_edit_file: content = self.get_stream_data(stream_id), the bytes its
\* own FILE_READ stream delivered
ContentRead(t) == unit.calls[t].content

\* tool_edit_file from the end of its read to the end of its sends: the
\* count checks, then the FILE_WRITE stream with the new content
EditOpenWrite(t) ==
    /\ unit.op = "edits" /\ unit.calls[t].pc = "read"
    /\ LET call == unit.calls[t]
           edit == EditFile(ContentRead(t), call.old_string, call.new_string, call.replace_all)
       IN IF edit.raised # <<>>
          THEN EditRaises(t, edit.raised)
          ELSE unit' = [unit EXCEPT !.calls[t].pc = "writing", !.calls[t].data = edit.data,
                                    !.calls[t].result = edit.result]
    /\ UNCHANGED mainVars

\* the remote end stores what the FILE_WRITE stream carried and ends it, or
\* ends it with a status other than STATUS_OK; tool_edit_file returns
EditWriteEnds(t) ==
    /\ unit.op = "edits" /\ unit.calls[t].pc = "writing"
    /\ \E status \in {STATUS_OK, STATUS_ERROR} :
          IF status # STATUS_OK
          THEN EditRaises(t, <<"Failed to write file">>)
          ELSE unit' = [unit EXCEPT !.calls[t].pc = "done", !.file = unit.calls[t].data,
                                    !.writes = Append(@, t)]
    /\ UNCHANGED mainVars

EditsNext ==
    \/ \E t \in Tools : EditOpenRead(t)
    \/ \E t \in Tools : EditReadEnds(t)
    \/ \E t \in Tools : EditOpenWrite(t)
    \/ \E t \in Tools : EditWriteEnds(t)

EditsSpec == EditsInit /\ [][EditsNext]_vars

\* ------------------------------------------------------------------------
\* The terminal: pty_to_client, the dispatcher's queue, terminal_handler
\* ------------------------------------------------------------------------
\* the inputs: what the assistant prints, in the pieces os.read returns; the
\* terminal packets of the client; the room of the PTY's input buffer (a few
\* bytes here for the kilobytes of a real one), which the master, set
\* O_NONBLOCK by spawn_claude, never waits for
PtyOutputs == { <<>>, << <<97>> >>, << <<97>>, <<98>> >>, << <<97, 98>>, <<97>>, <<10>> >> }
TermPackets ==
    { [type |-> "TERM_INPUT", payload |-> <<>>],
      [type |-> "TERM_INPUT", payload |-> <<97>>],
      [type |-> "TERM_INPUT", payload |-> <<97, 98, 10>>],
      [type |-> "TERM_RESIZE", payload |-> <<0, 24, 0, 80>>],
      [type |-> "TERM_RESIZE", payload |-> <<0, 24>>] }
TermArrivals == { <<>> } \cup { <<p>> : p \in TermPackets }
                    \cup { <<p, q>> : p, q \in TermPackets }
InputRooms == {2, 4}

TermInit ==
    /\ RelayInit
    /\ env.name = "flow"
    /\ \E shown \in PtyOutputs, arriving \in TermArrivals, room \in InputRooms :
          unit = [op |-> "term", done |-> FALSE,
                  shown |-> shown, pty |-> shown, data |-> <<>>, output |-> <<>>,
                  forwarder |-> "read",
                  arrived |-> arriving, arriving |-> arriving, packet_queue |-> <<>>,
                  taken |-> <<>>, applied |-> <<>>, applier |-> "get",
                  size |-> room, room |-> room, winsize |-> <<>>]

\* pty_to_client: data = await loop.run_in_executor(None, self.read_pty),
\* os.read returning the next piece, or OSError ending the task
ReadPty ==
    /\ unit.op = "term" /\ unit.forwarder = "read"
    /\ \/ /\ unit.pty # <<>>
          /\ unit' = [unit EXCEPT !.data = Head(unit.pty), !.pty = Tail(unit.pty),
                                  !.forwarder = "send"]
       \/ unit' = [unit EXCEPT !.forwarder = "done"]
    /\ UNCHANGED mainVars

\* pty_to_client: await self.send_packet(PKT_TERM_OUTPUT, data)
SendTermOutput ==
    /\ unit.op = "term" /\ unit.forwarder = "send"
    /\ unit' = [unit EXCEPT !.output = Append(@, unit.data), !.data = <<>>,
                            !.forwarder = "read"]
    /\ UNCHANGED mainVars

\* packet_dispatcher on TERM_INPUT and TERM_RESIZE:
\* await self.packet_queue.put((pkt_type, payload))
QueueTermPacket ==
    /\ unit.op = "term" /\ unit.arriving # <<>>
    /\ unit' = [unit EXCEPT !.packet_queue = Append(@, Head(unit.arriving)),
                            !.arriving = Tail(unit.arriving)]
    /\ UNCHANGED mainVars

\* os.write on the non-blocking master: the number of bytes taken, 0 for
\* BlockingIOError on a full buffer
OsWrite(payload, room) == IF Len(payload) <= room THEN Len(payload) ELSE room

\* terminal_handler: one packet off the queue, written or applied
TerminalHandler ==
    /\ unit.op = "term" /\ unit.applier = "get" /\ unit.packet_queue # <<>>
    /\ LET pkt == Head(unit.packet_queue)
           taken == [unit EXCEPT !.packet_queue = Tail(@), !.taken = Append(@, pkt)]
           written == OsWrite(pkt.payload, unit.room)
       IN IF pkt.type = "TERM_INPUT"
          THEN IF written = 0 /\ pkt.payload # <<>>
               THEN unit' = [taken EXCEPT !.applied = Append(@, <<>>), !.applier = "done"]
               ELSE unit' = [taken EXCEPT
                                !.applied = Append(@, SubSeq(pkt.payload, 1, written)),
                                !.room = @ - written]
          ELSE IF Len(pkt.payload) >= 4
               THEN unit' = [taken EXCEPT
                                !.applied = Append(@, pkt.payload),
                                !.winsize = <<256 * pkt.payload[1] + pkt.payload[2],
                                              256 * pkt.payload[3] + pkt.payload[4]>>]
               ELSE unit' = [taken EXCEPT !.applied = Append(@, <<>>)]
    /\ UNCHANGED mainVars

\* the assistant reads its input: the buffer has its whole room again
AssistantReads ==
    /\ unit.op = "term" /\ unit.room < unit.size
    /\ unit' = [unit EXCEPT !.room = unit.size]
    /\ UNCHANGED mainVars

TermNext ==
    \/ ReadPty
    \/ SendTermOutput
    \/ QueueTermPacket
    \/ TerminalHandler
    \/ AssistantReads

TermSpec == TermInit /\ [][TermNext]_vars

\* ------------------------------------------------------------------------
\* The PreToolUse hook (plugin/hooks/telepresence_proxy.py)
\* ------------------------------------------------------------------------
\* JSON values as far as the hook looks at them: a string is the list of its
\* characters and literal pieces, Absent is a key that is not there
Absent == [t |-> "absent"]
Str(s) == [t |-> "str", s |-> s]
Num == [t |-> "number"]
Null == [t |-> "null"]
Obj(fields) == [t |-> "object", f |-> fields]

\* the inputs: TELEPRESENCE_SOCKET, and what stdin holds
HookSockets == {Absent, Str(<<>>), Str(<<"/tmp/s">>)}
HookToolNames ==
    {Absent, Str(<<"Bash">>), Str(<<"Read">>), Str(<<"Write">>), Str(<<"Glob">>),
     Str(<<"Grep">>), Str(<<"Edit">>)}
HookArgs == {Absent, Str(<<>>), Str(<<"l", "s">>), Str(<<"i", "t", "'", "s">>), Num}
HookToolInputs ==
    {Absent, Null}
    \cup {Obj([command |-> a, file_path |-> a, pattern |-> a, path |-> Absent]) :
            a \in HookArgs}
    \cup {Obj([command |-> Absent, file_path |-> Absent, pattern |-> Str(<<"l", "s">>),
               path |-> Str(<<"/", "a">>)])}
HookStdins ==
    {[t |-> "invalid"], [t |-> "array"], Null}
    \cup {Obj([tool_name |-> n, tool_input |-> i]) : n \in HookToolNames, i \in HookToolInputs}

\* dict.get(key, default)
Get(v, default) == IF v = Absent THEN default ELSE v
\* `not x` for the values above: None, '' and a missing socket are falsy
Falsy(v) == v \in {Absent, Null, Str(<<>>)}

\* allow()
Allow == [permissionDecision |-> "allow"]

\* shell_escape: "'" + s.replace("'", "'\\''") + "'"
RECURSIVE QuotesReplaced(_)
QuotesReplaced(s) ==
    IF s = <<>> THEN <<>>
    ELSE (IF Head(s) = "'" THEN <<"'", "\\", "'", "'">> ELSE <<Head(s)>>)
            \o QuotesReplaced(Tail(s))
ShellEscape(s) == <<"'">> \o QuotesReplaced(s) \o <<"'">>

\* make_bash_command: ' '.join(parts)
MakeBashCommand(helper_path, socket_path, cmd, arg) ==
    ShellEscape(helper_path) \o <<" ">> \o ShellEscape(socket_path) \o <<" ", cmd, " ">>
        \o ShellEscape(arg)

\* get_env: the default of TELEPRESENCE_HELPER
HelperPath == <<"/tmp/telepresence-helper">>

\* what a run of the hook leaves: the lines printed to stdout, the exit code,
\* the exception that ended it
HookEmits(decision) == [stdout |-> <<decision>>, rc |-> 0, raised |-> "none"]
HookRaises(exception) == [stdout |-> <<>>, rc |-> 1, raised |-> exception]

\* str(x) inside an f-string
Shown(v) == IF v.t = "str" THEN v.s ELSE <<"5">>

\* deny_with_mcp_hint, TELEPRESENCE_REMOTE_CWD not set
DenyWithMcpHint(tool_name, mcp_tool, params_hint) ==
    [permissionDecision |-> "deny",
     permissionDecisionReason |->
        <<"TELEPRESENCE MODE: ", tool_name, " disabled. ", "Use mcp__telepresence__",
          mcp_tool, "(">> \o params_hint \o <<") instead.">>]

\* proxy_bash
ProxyBash(tool_input, socket_path) ==
    LET command == Get(tool_input.f.command, Str(<<>>))
    IN IF Falsy(command) THEN HookEmits(Allow)
       ELSE IF command.t # "str" THEN HookRaises("AttributeError")
       ELSE HookEmits([permissionDecision |-> "allow",
                        permissionDecisionReason |-> <<"Proxying to remote via telepresence">>,
                        updatedInput |->
                            MakeBashCommand(HelperPath, socket_path, "exec", command.s)])

\* proxy_read, proxy_write
ProxyFile(tool_name, mcp_tool, tail, tool_input) ==
    LET file_path == Get(tool_input.f.file_path, Str(<<>>))
    IN IF Falsy(file_path) THEN HookEmits(Allow)
       ELSE HookEmits(DenyWithMcpHint(tool_name, mcp_tool,
                                       <<"path='">> \o Shown(file_path) \o <<"'">> \o tail))

\* proxy_glob, proxy_grep
ProxyPattern(tool_name, mcp_tool, tool_input) ==
    LET pattern == Get(tool_input.f.pattern, Str(<<>>))
        path == Get(tool_input.f.path, Str(<<".">>))
    IN IF Falsy(pattern) THEN HookEmits(Allow)
       ELSE HookEmits(DenyWithMcpHint(tool_name, mcp_tool,
                                       <<"pattern='">> \o Shown(pattern) \o <<"', path='">>
                                           \o Shown(path) \o <<"'">>))

\* the tools main has a handler for
Handled == {<<"Bash">>, <<"Read">>, <<"Write">>, <<"Glob">>, <<"Grep">>}

\* main
HookMain(socket, stdin) ==
    IF Falsy(socket) THEN HookEmits(Allow)
    ELSE IF stdin.t = "invalid" THEN HookEmits(Allow)
    ELSE IF stdin.t # "object" THEN HookRaises("AttributeError")
    ELSE LET tool_name == Get(stdin.f.tool_name, Str(<<>>))
             tool_input == Get(stdin.f.tool_input, Obj([command |-> Absent,
                                   file_path |-> Absent, pattern |-> Absent, path |-> Absent]))
         IN IF tool_name.s \notin Handled THEN HookEmits(Allow)
            ELSE IF tool_input.t # "object" THEN HookRaises("AttributeError")
            ELSE CASE tool_name.s = <<"Bash">> -> ProxyBash(tool_input, socket.s)
                   [] tool_name.s = <<"Read">> ->
                        ProxyFile("Read", "read_file", <<>>, tool_input)
                   [] tool_name.s = <<"Write">> ->
                        ProxyFile("Write", "write_file", <<", content=<your content>">>,
                                  tool_input)
                   [] tool_name.s = <<"Glob">> -> ProxyPattern("Glob", "find_files", tool_input)
                   [] tool_name.s = <<"Grep">> ->
                        ProxyPattern("Grep", "search_files", tool_input)

\* ------------------------------------------------------------------------
\* The handlers' computations as a specification: one input, one application
\* ------------------------------------------------------------------------
UnitInit ==
    /\ RelayInit
    /\ env.name = "flow"
    /\ \/ \E chunks \in ExecChunkLists, extra \in ExecExtras :
             unit = [op |-> "exec", done |-> FALSE, chunks |-> chunks, extra |-> extra]
       \/ \E tool \in PathTools, path \in RemoteArgs, cwd \in RemoteCwds :
             unit = [op |-> "path", done |-> FALSE, tool |-> tool, path |-> path, cwd |-> cwd]
       \/ \E tool \in HostTools, path \in RemoteArgs, cwd \in RemoteCwds,
             host_path \in HostPaths, home \in Homes, overwrite \in BOOLEAN,
             host_exists \in BOOLEAN :
             unit = [op |-> "host", done |-> FALSE, tool |-> tool, path |-> path, cwd |-> cwd,
                     host_path |-> host_path, home |-> home, overwrite |-> overwrite,
                     host_exists |-> host_exists]
       \/ \E file \in FileContents, old_string \in EditStrings, new_string \in EditStrings,
             replace_all \in BOOLEAN :
             unit = [op |-> "edit", done |-> FALSE, file |-> file, old_string |-> old_string,
                     new_string |-> new_string, replace_all |-> replace_all]
       \/ \E file \in FileContents, offset \in ReadOffsets, limit \in ReadLimits :
             unit = [op |-> "read", done |-> FALSE, file |-> file, offset |-> offset,
                     limit |-> limit]
       \/ \E pkt_type \in HeaderTypes, length \in HeaderLengths :
             unit = [op |-> "recv", done |-> FALSE, header |-> <<pkt_type>> \o length]
       \/ \E socket \in HookSockets, stdin \in HookStdins :
             unit = [op |-> "hook", done |-> FALSE, socket |-> socket, stdin |-> stdin]

ExecuteCommand ==
    /\ unit.op = "exec" /\ ~unit.done
    /\ unit' = [op |-> "exec", done |-> TRUE, chunks |-> unit.chunks, extra |-> unit.extra,
                out |-> RenderExec(unit.chunks, unit.extra)]
    /\ UNCHANGED mainVars

\* read_file, file_info, remove_file: from the call to the first await
PathToolCall ==
    /\ unit.op = "path" /\ ~unit.done
    /\ unit' = [op |-> "path", done |-> TRUE, tool |-> unit.tool, path |-> unit.path,
                cwd |-> unit.cwd, out |-> PathTool(unit.tool, unit.path, unit.cwd)]
    /\ UNCHANGED mainVars

\* upload_to_host, download_from_host: from the call to the first await
HostToolCall ==
    /\ unit.op = "host" /\ ~unit.done
    /\ unit' = [op |-> "host", done |-> TRUE, tool |-> unit.tool, path |-> unit.path,
                cwd |-> unit.cwd, host_path |-> unit.host_path, home |-> unit.home,
                overwrite |-> unit.overwrite, host_exists |-> unit.host_exists,
                out |-> IF unit.tool = "upload_to_host"
                        THEN UploadToHost(unit.path, unit.host_path, unit.overwrite,
                                          unit.cwd, unit.home, unit.host_exists)
                        ELSE DownloadFromHost(unit.path, unit.host_path, unit.overwrite,
                                              unit.cwd, unit.home)]
    /\ UNCHANGED mainVars

\* edit_file from the end of its read to its return
EditFileCall ==
    /\ unit.op = "edit" /\ ~unit.done
    /\ unit' = [op |-> "edit", done |-> TRUE, file |-> unit.file,
                old_string |-> unit.old_string, new_string |-> unit.new_string,
                replace_all |-> unit.replace_all,
                out |-> EditFile(unit.file, unit.old_string, unit.new_string,
                                 unit.replace_all)]
    /\ UNCHANGED mainVars

\* read_file from the end of its read to its return
ReadFileCall ==
    /\ unit.op = "read" /\ ~unit.done
    /\ unit' = [op |-> "read", done |-> TRUE, file |-> unit.file, offset |-> unit.offset,
                limit |-> unit.limit, out |-> FormatRead(unit.file, unit.offset, unit.limit)]
    /\ UNCHANGED mainVars

\* recv_packet from its call to its return or its exception
RecvPacketCall ==
    /\ unit.op = "recv" /\ ~unit.done
    /\ unit' = [op |-> "recv", done |-> TRUE, header |-> unit.header,
                out |-> RecvPacket(unit.header)]
    /\ UNCHANGED mainVars

\* one run of the hook: main, from its start to sys.exit
HookCall ==
    /\ unit.op = "hook" /\ ~unit.done
    /\ unit' = [op |-> "hook", done |-> TRUE, socket |-> unit.socket, stdin |-> unit.stdin,
                out |-> HookMain(unit.socket, unit.stdin)]
    /\ UNCHANGED mainVars

UnitNext ==
    \/ HookCall
    \/ ExecuteCommand
    \/ RecvPacketCall
    \/ ReadFileCall
    \/ EditFileCall
    \/ PathToolCall
    \/ HostToolCall

UnitSpec == UnitInit /\ [][UnitNext]_vars

\* ------------------------------------------------------------------------
\* Flow control
\* ------------------------------------------------------------------------
\* C1: in every state of every session (also one that starts after an
\* earlier session ended) 0 <= bytes_in_flight <= remote_window.
C1_InFlightWithinWindow ==
    client_connected => (0 <= bytes_in_flight /\ bytes_in_flight <= remote_window)

\* a task suspended in `await self.window_available.wait()`: it holds the
\* send lock (the lock is held across a suspension nowhere else)
WaitsForCredit(p) == send_lock = p
WaitsForLock(p) == \E i \in 1..Len(lockq) : lockq[i] = p
IsControl(pkt) == pkt.type \notin FlowControlled \cup {"none"}

\* C2: a FILE_WRITE larger than remote_window still makes progress: the
\* sender emits as much data as the window allows before it blocks, so a
\* write that waits for credit has used the window up.
C2_WriteEmitsUpToWindow ==
    \A t \in Tools :
        (WaitsForCredit(Tool(t)) /\ tl[t].kind = "write")
            => bytes_in_flight = remote_window

\* C4: sending a control packet never waits for outbound window credit: no
\* control packet waits for the send lock while the lock's holder waits for
\* credit.
C4_ControlNeverWaitsForCredit ==
    \A p \in Procs :
        (IsControl(snd[p]) /\ WaitsForLock(p)) => send_lock = Free

\* the scheduling of the event loop: a task that can run is run
Fairness == \A p \in Procs : WF_vars(SendStep(p))
\* the sessions whose peer returns credit and acknowledges writes
FlowInit == Init /\ env.name = "flow"
FairSpec == FlowInit /\ [][Next]_vars /\ Fairness

\* while a sender waits for credit, every step that returns credit sets
\* window_available
C3_WakeIssued ==
    [][((\E p \in Procs : WaitsForCredit(p)) /\ bytes_in_flight' < bytes_in_flight)
          => window_available']_vars
\* a sender that leaves the credit wait (and was not cancelled) found
\* bytes_in_flight + n <= remote_window and committed its packet in that step
C3_WokenSenderRechecks ==
    [][\A p \in Procs :
          (WaitsForCredit(p) /\ window_available /\ snd'[p] # snd[p] /\ pc'[p] # "done")
            => /\ bytes_in_flight + snd[p].len <= remote_window
               /\ bytes_in_flight' = bytes_in_flight + snd[p].len]_vars
\* a woken sender goes back to waiting only when its packet does not fit
C3_WaitsAgainOnlyWithoutCredit ==
    [][\A p \in Procs :
          (WaitsForCredit(p) /\ window_available /\ ~window_available')
            => bytes_in_flight + snd[p].len > remote_window]_vars
\* a sender whose event was set eventually runs again
C3_WokenSenderRuns ==
    \A p \in Procs :
        (WaitsForCredit(p) /\ window_available) ~> ~(WaitsForCredit(p) /\ window_available)

Waited == {"end", "status", "exists", "error", "timeout", "cancelled"}

\* C5: for every STREAM_OPEN the relay emits, the operation waiting on that
\* stream is resolved exactly once, by STREAM_END, STREAM_ERROR or the local
\* timeout: no future is resolved twice, and the future of an operation that
\* came back from its wait was resolved once.
C5_ResolvedExactlyOnce ==
    /\ \A f \in 1..Len(futs) : futs[f].n <= 1
    /\ \A t \in Tools : tres[t].via \in Waited => futs[tres[t].own].n = 1

\* an operation came back from its wait on STREAM_END, its future resolved once
C5_OperationResolvedByEnd ==
    \E t \in Tools :
        /\ tres[t].via = "end"
        /\ futs[tres[t].own] = [st |-> "result", status |-> STATUS_OK, n |-> 1]

\* what the peer sent for sid before its STREAM_END, as the operation is to
\* receive it: a list of the chunks for EXEC, their concatenation otherwise
DataBeforeEnd(kind, sid) ==
    IF kind = "exec" THEN peer[sid].data ELSE Concat(peer[sid].data)

\* C6: the data handed to an operation whose stream completed is exactly the
\* STREAM_DATA payloads received for that id before its STREAM_END, in order.
C6_DataHandedIsDataBeforeEnd ==
    [][\A t \in Tools :
          (pc[Tool(t)] = "wait" /\ pc'[Tool(t)] = "idle" /\ tres'[t].via = "end"
              /\ tl[t].kind \in {"read", "exec"})
            => tres'[t].data = DataBeforeEnd(tl[t].kind, tl[t].sid)]_vars

\* C7: on a connection the ids of the STREAM_OPEN packets are even, strictly
\* increasing, and none is used twice.
C7_IdsEvenAndIncreasing ==
    \A c \in Conns :
        /\ \A i \in 1..Len(openLog[c]) : openLog[c][i] % 2 = 0
        /\ \A i, j \in 1..Len(openLog[c]) : i < j => openLog[c][i] < openLog[c][j]

\* C8: a STREAM_DATA that arrives for an id after its STREAM_END/STREAM_ERROR
\* is dropped: the chunks kept for an ended id are those received before.
C8_LateDataDropped ==
    \A sid \in DOMAIN stream_data :
        peer[sid].ended => stream_data[sid] = peer[sid].data

\* C9: a STREAM_END/STREAM_ERROR for an id that is completed, retired or was
\* never opened is dropped and does not end the session: the dispatcher
\* never leaves its loop on an exception of a stream handler.
C9_StaleEndDoesNotEndSession ==
    \A c \in Conns : pc[Disp(c)] # "failed"

\* C10: when the session ends (GOODBYE or EOF) every pending waiter is
\* resolved (CANCELLED) before the assistant is terminated and the PTY and
\* the socket are closed: once the PTY is gone no operation waits on a
\* pending future.
C10_WaitersCancelledAtTeardown ==
    (sessions > 0 /\ ~master_fd)
        => \A t \in Tools : pc[Tool(t)] = "wait" => futs[tl[t].fut].st # "pending"

\* ------------------------------------------------------------------------
\* Timeouts and termination
\* ------------------------------------------------------------------------
\* the 300 s wait of wait_stream gives up on the future of handler t
GivesUp(t) ==
    /\ pc[Tool(t)] = "wait"
    /\ futs[tl[t].fut].st = "pending"
    /\ futs'[tl[t].fut].st = "cancelled"

\* C11: when the wait for a stream times out, the relay emits STREAM_CANCEL
\* with that stream id and the operation ends with a timeout error.
C11_TimeoutSendsCancel ==
    [][\A t \in Tools :
          GivesUp(t) => snd'[Tool(t)] = Pkt("STREAM_CANCEL", SID_LEN, tl[t].sid)]_vars

\* the event loop runs every task that can run, and the timer of every
\* asyncio.wait_for fires: what the peer sends is left to the peer
Progress ==
    /\ Fairness
    /\ \A t \in Tools : WF_vars(ToolResume(t)) /\ WF_vars(ToolTimeout(t))
TimedSpec == FlowInit /\ [][Next]_vars /\ Progress

\* C12: every tool call that passed the connected check eventually returns a
\* result or an error, also when the client disconnects mid-operation and
\* when the peer never returns window credit during a write.
C12_ToolCallReturns ==
    \A t \in Tools : (pc[Tool(t)] # "idle") ~> (pc[Tool(t)] = "idle")

\* no handshake is under way and no session is running
NoConnection == \A c \in Conns : pc[Hc(c)] = "closed"

\* C13: every payload byte of STREAM_DATA and TERM_INPUT the relay consumed
\* is covered by the increment of some WINDOW_UPDATE before the session
\* ends: after a session no consumed byte is left unacknowledged.
C13_ConsumedBytesCredited ==
    (sessions > 0 /\ NoConnection) => bytes_received_unacked = 0

\* ------------------------------------------------------------------------
\* Handshake and protocol errors
\* ------------------------------------------------------------------------
\* a first packet that is a valid HELLO
ValidHello(pkt) ==
    /\ pkt.type = "HELLO"
    /\ pkt.len >= 6
    /\ pkt.len <= MAX_PAYLOAD
    /\ pkt.version = PROTOCOL_VERSION

\* the handler of c read a first packet that is not a valid HELLO
Rejected(c) == first[c] # NoFirst /\ ~ValidHello(first[c])

\* C14: a session is established only after the first packet received is a
\* HELLO of at least 6 bytes and version 2; after any other first packet the
\* relay sends GOODBYE(PROTOCOL_ERROR) to that peer and closes, without
\* starting the assistant or the reader for it.
C14_SessionOnlyAfterValidHello ==
    \A c \in Conns :
        /\ pc[Hc(c)] \in {"ack", "run"} => ValidHello(first[c])
        /\ Rejected(c) => /\ pc[Hc(c)] \in {"bye", "fin", "closed"}
                          /\ pc[Disp(c)] \notin {"recv", "send"}
                          /\ pc[Pty(c)] \notin {"read", "send"}
        /\ (Rejected(c) /\ pc[Hc(c)] = "closed") => c \in byes

\* the connection c met a protocol error: a packet advertising more than
\* MAX_PAYLOAD bytes, as its first packet or during its session
ProtocolError(c) ==
    \/ TooLarge(first[c].len)
    \/ ValidHello(first[c]) /\ pc[Disp(c)] = "toolarge"

\* C15: when a protocol error occurs at any point of a connection, the relay
\* sends GOODBYE(PROTOCOL_ERROR) to the peer and then closes the connection:
\* a connection closed after a protocol error has been sent a GOODBYE.
C15_ProtocolErrorSendsGoodbye ==
    \A c \in Conns : (ProtocolError(c) /\ pc[Hc(c)] = "closed") => c \in byes

\* ------------------------------------------------------------------------
\* One session at a time
\* ------------------------------------------------------------------------
\* the connections with an established session
ActiveSessions == {c \in Conns : pc[Hc(c)] = "run"}

\* the state of the session: writer, window, PTY, stream registry, id counter
sessionState == <<client_writer, client_connected, remote_window, master_fd,
                  pending_streams, stream_data, next_stream_id>>

\* C16: at most one client session is active at a time: while the session of
\* c is established, no step of another connection's handler (its accept, its
\* handshake, its end) changes the session state, and at most one session is
\* established.
C16_OneSessionAtATime ==
    [][/\ \A c, d \in Conns :
             (c # d /\ pc[Hc(c)] = "run" /\ pc'[Hc(d)] # pc[Hc(d)])
                 => UNCHANGED sessionState
       /\ Cardinality(ActiveSessions') <= 1]_vars

\* ------------------------------------------------------------------------
\* Tool calls and the session
\* ------------------------------------------------------------------------
\* no session is established: every connection is closed, in its handshake
\* or being refused
NoSession == \A c \in Conns : pc[Hc(c)] \in {"closed", "hello", "ack", "bye"}

\* the step is a tools/call, taken by handler t
Called(t) ==
    /\ calls' = calls + 1
    /\ pc[Tool(t)] = "idle"
    /\ t = FirstFree({x \in Tools : pc[Tool(x)] = "idle"})

\* C17: a tools/call received while no client session is established returns
\* the isError result 'Client not connected' and emits no packet; once a
\* client completes the handshake, tool calls are accepted again.
C17_NoSessionNoToolCall ==
    /\ [](NoSession => ~client_connected)
    /\ [][\A t \in Tools :
             (Called(t) /\ NoSession)
                 => /\ Response(tres'[t]) = ToolError("Client not connected")
                    /\ pc'[Tool(t)] = "idle"
                    /\ UNCHANGED <<snd, lockq, openLog>>]_vars
    /\ [][\A c \in Conns :
             (pc[Hc(c)] = "ack" /\ pc'[Hc(c)] = "run") => client_connected']_vars
    /\ [][\A t \in Tools :
             (Called(t) /\ client_connected) => pc'[Tool(t)] = "open"]_vars

\* a call was refused, and the same handler then took a call in the second
\* session and opened its stream
C17_RefusedThenAccepted ==
    \E t \in Tools :
        /\ sessions = 2
        /\ tres[t].via = "notconnected"
        /\ pc[Tool(t)] = "wait"
        /\ client_connected

\* ------------------------------------------------------------------------
\* PING / PONG
\* ------------------------------------------------------------------------
\* every PONG inside send_packet is the reply of a dispatcher to the PING it
\* read last, with the payload of that PING
PongOnlyInReply ==
    \A p \in Procs :
        snd[p].type = "PONG"
            => \E c \in Conns : p = Disp(c) /\ ping[c].out /\ snd[p].data = ping[c].data

\* C18: every PING received during a session is eventually answered by
\* exactly one PONG carrying the identical payload (unless the session ends
\* first), and the relay sends PONG only in reply to a PING.
C18_PingAnswered ==
    /\ []PongOnlyInReply
    /\ \A c \in Conns : ping[c].out ~> (~ping[c].out \/ pc[Hc(c)] # "run")

\* ------------------------------------------------------------------------
\* The wire
\* ------------------------------------------------------------------------
\* C19: with any number of concurrent senders the byte stream written to a
\* connection is a sequence of whole packets, each header immediately
\* followed by its own payload.
C19_WholePacketsOnWire ==
    \A c \in Conns : wire[c] = <<>> \/ WholePacket(wire[c])

\* a flow-controlled packet of a tool handler is the last one on the wire
\* while a second sender holds the lock and a third waits for it
C19_WrittenAmongSenders ==
    \E c \in Conns :
        /\ WholePacket(wire[c])
        /\ wire[c][2].type = "STREAM_DATA"
        /\ send_lock # Free
        /\ lockq # <<>>

\* ------------------------------------------------------------------------
\* Operation errors
\* ------------------------------------------------------------------------
\* handler t runs again after its wait, the future holding the exception
\* handle_stream_error set
ResumesOnError(t) ==
    /\ pc[Tool(t)] = "wait"
    /\ futs[tl[t].fut].st = "exception"
    /\ pc'[Tool(t)] # "wait"

\* C20: when the peer answers a stream with STREAM_ERROR, the tool call
\* waiting on it ends with a result that has isError true and a text starting
\* 'Error: ', and the operation performs no further wire step.
C20_StreamErrorEndsOperation ==
    [][\A t \in Tools :
          ResumesOnError(t)
              => /\ pc'[Tool(t)] = "idle"
                 /\ Response(tres'[t]).isError
                 /\ Head(Response(tres'[t]).text) = "Error: "
                 /\ snd'[Tool(t)] = NoPkt
                 /\ UNCHANGED <<openLog, wire, next_stream_id>>]_vars

\* a tool call has ended on the STREAM_ERROR of its stream
C20_EndedOnStreamError ==
    \E t \in Tools :
        /\ tres[t].via = "error"
        /\ futs[tres[t].own].st = "exception"
        /\ pc[Tool(t)] = "idle"

\* ------------------------------------------------------------------------
\* Rendering and validation
\* ------------------------------------------------------------------------
\* the bytes of one channel in arrival order, as text
RECURSIVE OfChannel(_, _)
OfChannel(chunks, ch) ==
    IF chunks = <<>> THEN <<>>
    ELSE (IF Head(chunks) # <<>> /\ Head(chunks)[1] = ch THEN Tail(Head(chunks)) ELSE <<>>)
         \o OfChannel(Tail(chunks), ch)

\* the separator that '\n'.join puts after a block that is present
Sep(block) == IF block # <<>> THEN <<"\n">> ELSE <<>>

\* C21: an EXEC stream that ends with status OK and a non-zero exit code
\* yields a successful result whose text is all stdout chunks in arrival
\* order, then a [stderr] block with all stderr chunks if stderr is
\* non-empty, then [exit status: N]; each chunk goes by its first byte.
C21_ExecRendered ==
    (/\ unit.op = "exec" /\ unit.done /\ ExitCode(unit.extra) # 0
     /\ \A i \in DOMAIN unit.chunks : unit.chunks[i] = <<>> \/ unit.chunks[i][1] \in {1, 2})
        => LET out == Decode(OfChannel(unit.chunks, 1))
               err == Decode(OfChannel(unit.chunks, 2))
               block == IF err # <<>> THEN <<"[stderr]\n">> \o err ELSE <<>>
           IN /\ unit.out.isError = FALSE
              /\ unit.out.text[1]
                     = out \o Sep(out) \o block \o Sep(block)
                           \o <<"[exit status: ", ToString(ExitCode(unit.extra)), "]">>

\* stdout and stderr chunks interleaved, exit code -1
C21_InterleavedChannels ==
    /\ unit.op = "exec" /\ unit.done
    /\ unit.chunks = << <<2, 98>>, <<1, 97>>, <<2, 97, 255>> >>
    /\ unit.extra = <<255, 255, 255, 255>>
    /\ unit.out.text[1] = <<"a", "\n", "[stderr]\n", "b", "a", REPLACEMENT, "\n",
                            "[exit status: ", "-1", "]">>

\* the resolved path is the base directory or a path below it, component by
\* component
Descendant(resolved) ==
    LET comps == Split(resolved)
        base == Split(host_base_dir)
    IN Len(comps) >= Len(base) /\ SubSeq(comps, 1, Len(base)) = base

\* C22: upload_to_host and download_from_host called with a host path that
\* resolves outside the startup directory are rejected with 'Host path must
\* be under <base>' and open no stream, so they put no packet on the wire.
C22_HostPathConfined ==
    (/\ unit.op = "host" /\ unit.done
     /\ unit.path # <<>> /\ unit.host_path # <<>>
     /\ ~Descendant(ResolvedHostPath(unit.host_path, unit.home)))
        => /\ unit.out.raised = <<"Host path must be under ">> \o host_base_dir
           /\ unit.out.opened = "none"
           /\ \A c \in Conns : wire[c] = <<>>

\* /s/w/../wx/f names a sibling of the base whose name starts like the base's
C22_SiblingRejected ==
    /\ unit.op = "host" /\ unit.done /\ unit.tool = "upload_to_host"
    /\ unit.path = <<"f">> /\ unit.overwrite
    /\ unit.host_path = <<"/", "s", "/", "w", "/", ".", ".", "/", "w", "x", "/", "f">>
    /\ ResolvedHostPath(unit.host_path, unit.home) = <<"/", "s", "/", "w", "x", "/", "f">>
    /\ unit.out.raised = <<"Host path must be under ">> \o host_base_dir

\* the handler raised before it opened any stream
RefusedOffTheWire ==
    unit.out.raised # <<>> /\ unit.out.opened = "none" /\ \A c \in Conns : wire[c] = <<>>

\* C23: a tool call that fails tool-level validation - a required argument
\* is missing (read_file, file_info, remove_file without path; the transfer
\* tools without remote_path or host_path), or upload_to_host finds the
\* destination present with overwrite false - returns an error without
\* emitting any packet.
C23_ValidationFailsOffTheWire ==
    /\ (unit.op = "path" /\ unit.done /\ unit.path = <<>>) => RefusedOffTheWire
    /\ (unit.op = "host" /\ unit.done /\ (unit.path = <<>> \/ unit.host_path = <<>>))
           => RefusedOffTheWire
    /\ (/\ unit.op = "host" /\ unit.done /\ unit.tool = "upload_to_host"
        /\ unit.path # <<>> /\ unit.host_path # <<>>
        /\ Descendant(ResolvedHostPath(unit.host_path, unit.home))
        /\ unit.host_exists /\ ~unit.overwrite) => RefusedOffTheWire

\* the positions at which sub occurs in s
Positions(s, sub) ==
    {i \in 1..(Len(s) - Len(sub) + 1) : SubSeq(s, i, i + Len(sub) - 1) = sub}

\* s with the occurrence of old at position i replaced by new
ReplacedAt(s, i, old, new) ==
    SubSeq(s, 1, i - 1) \o new \o SubSeq(s, i + Len(old), Len(s))

\* s with every occurrence of old, from left to right, replaced by new
RECURSIVE ReplacedEverywhere(_, _, _)
ReplacedEverywhere(s, old, new) ==
    IF Positions(s, old) = {} THEN s
    ELSE LET i == CHOOSE k \in Positions(s, old) : \A j \in Positions(s, old) : k <= j
         IN SubSeq(s, 1, i - 1) \o new
                \o ReplacedEverywhere(SubSeq(s, i + Len(old), Len(s)), old, new)

Edited == unit.op = "edit" /\ unit.done /\ unit.old_string # <<>>

\* C24: edit_file reads the file and then (a) fails if old_string does not
\* occur; (b) fails reporting the count if it occurs more than once and
\* replace_all is false; (c) otherwise replaces the first occurrence, or all
\* with replace_all, and writes the result; in (a) and (b) no FILE_WRITE
\* stream is opened.
C24_EditCases ==
    Edited =>
        LET content == Decode(unit.file)
            at == Positions(content, unit.old_string)
            count == Count(content, unit.old_string)
            leftmost == CHOOSE k \in at : \A j \in at : k <= j
        IN /\ Head(unit.out.opened) = "FILE_READ"
           /\ at = {} =>
                  /\ unit.out.raised = <<"old_string not found in file">>
                  /\ unit.out.opened = <<"FILE_READ">>
           /\ (count > 1 /\ ~unit.replace_all) =>
                  /\ unit.out.raised = <<"old_string found ", ToString(count),
                                         " times. Use replace_all=true or provide more context.">>
                  /\ unit.out.opened = <<"FILE_READ">>
           /\ (at # {} /\ ~(count > 1 /\ ~unit.replace_all)) =>
                  /\ unit.out.raised = <<>>
                  /\ unit.out.opened = <<"FILE_READ", "FILE_WRITE">>
                  /\ Decode(unit.out.data) =
                         IF unit.replace_all
                         THEN ReplacedEverywhere(content, unit.old_string, unit.new_string)
                         ELSE ReplacedAt(content, leftmost, unit.old_string, unit.new_string)

\* "a" occurs twice in "aba": refused without replace_all
C24_RefusedWithCount ==
    /\ Edited /\ unit.file = <<97, 98, 97>> /\ unit.old_string = <<"a">>
    /\ ~unit.replace_all /\ unit.new_string = <<"b">>
    /\ unit.out.raised = <<"old_string found ", "2",
                           " times. Use replace_all=true or provide more context.">>
    /\ unit.out.opened = <<"FILE_READ">>

\* C25: for every file content and every (non-empty) string x, edit_file(p, x, x)
\* leaves the file content unchanged (what it writes, if it writes, is the
\* content it read) and succeeds if and only if x occurs in the file.
C25_SameStringEditIsNoOp ==
    (Edited /\ unit.new_string = unit.old_string /\ ~unit.replace_all)
        => /\ unit.out.opened = <<"FILE_READ", "FILE_WRITE">> => unit.out.data = unit.file
           /\ unit.out.raised = <<>> <=> Positions(Decode(unit.file), unit.old_string) # {}

\* C26: read_file of a zero-length file (no DATA, then END with status OK)
\* returns an empty body, with no line-number prefix.
C26_EmptyFileEmptyBody ==
    (unit.op = "read" /\ unit.done /\ unit.file = <<>>)
        => unit.out.isError = FALSE /\ unit.out.text[1] = <<>>

\* C27: recv_packet accepts a packet whose advertised payload length is
\* exactly 16 MiB and rejects one whose advertised length is 16 MiB + 1,
\* without reading its payload: it has taken the five header bytes only.
C27_PayloadLimit ==
    (unit.op = "recv" /\ unit.done)
        => /\ SubSeq(unit.header, 2, 5) = <<1, 0, 0, 0>>
                  => ~unit.out.raised /\ unit.out.taken = 5 + 16777216
           /\ SubSeq(unit.header, 2, 5) = <<1, 0, 0, 1>>
                  => unit.out.raised /\ unit.out.taken = 5

\* a STREAM_DATA header announcing 16 MiB + 1
C27_OneByteTooMany ==
    /\ unit.op = "recv" /\ unit.done
    /\ unit.header = <<33, 1, 0, 0, 1>>
    /\ unit.out.raised /\ unit.out.taken = 5

\* ------------------------------------------------------------------------
\* Stream protocol of the operations
\* ------------------------------------------------------------------------
\* tool t goes from sending to waiting for the END of the peer
StartsWaiting(t) == pc[Tool(t)] # "wait" /\ pc'[Tool(t)] = "wait"

\* C28: every single-call operation (read, exec, ... - not only FILE_WRITE)
\* sends STREAM_END(OK) for its stream after STREAM_OPEN before it waits for
\* the peer's END: the packet it sent last when it starts to wait is that END.
C28_EndSentBeforeWaiting ==
    [][\A t \in Tools :
          StartsWaiting(t) => snd[Tool(t)] = Pkt("STREAM_END", 5, tl[t].sid)]_vars

\* the content bytes carried by the STREAM_DATA packets of a list
RECURSIVE DataBytes(_)
DataBytes(pkts) ==
    IF pkts = <<>> THEN 0
    ELSE (IF Head(pkts).type = "STREAM_DATA" THEN Head(pkts).len - SID_LEN ELSE 0)
         + DataBytes(Tail(pkts))

\* OPEN, then DATA of at most CHUNK_SIZE bytes each, then one END with the
\* status byte and no extra, all of one stream id; the DATA before the END
\* carry the whole content (the packets of the model carry lengths: each chunk
\* is the part of the content after the chunks before it)
WriteOrder(e) ==
    e.pkts # <<>> =>
        /\ e.pkts[1].type = "STREAM_OPEN"
        /\ DataBytes(e.pkts) <= e.content
        /\ \A i \in 2..Len(e.pkts) :
              /\ e.pkts[i].sid = e.pkts[1].sid
              /\ e.pkts[i].type \in {"STREAM_DATA", "STREAM_END"}
              /\ e.pkts[i].type = "STREAM_DATA" => e.pkts[i].len - SID_LEN \in 1..CHUNK_SIZE
              /\ e.pkts[i].type = "STREAM_END" =>
                     /\ i = Len(e.pkts)
                     /\ e.pkts[i].len = SID_LEN + 1
                     /\ DataBytes(e.pkts) = e.content

\* C29: for a write of content c on stream s the relay emits, in this order,
\* one STREAM_OPEN, STREAM_DATA packets of at most 64 KiB each that together
\* carry c, and one STREAM_END with empty extra; no DATA for s follows its
\* END, whatever else is written to the connection in between.
C29_WriteOrder == \A t \in Tools : WriteOrder(emitted[t])

\* a content of 70000 bytes went out in two chunks while the other handler
\* and the terminal were writing too
C29_TwoChunksWritten ==
    /\ emitted["t1"].content = 70000
    /\ emitted["t1"].pkts = <<Pkt("STREAM_OPEN", 5, 0), Pkt("STREAM_DATA", SID_LEN + CHUNK_SIZE, 0),
                              Pkt("STREAM_DATA", SID_LEN + 4464, 0), Pkt("STREAM_END", 5, 0)>>
    /\ Len(emitted["t2"].pkts) = 2
    /\ bytes_in_flight > 70008 + CHUNK_SIZE + SID_LEN

\* ------------------------------------------------------------------------
\* The window used up exactly
\* ------------------------------------------------------------------------
\* the step of send_packet that p takes writes its packet / makes p wait
Emits(p) == SendStep(p) /\ send_lock' = Free /\ bytes_in_flight' = bytes_in_flight + snd[p].len
WaitsOn(p) == SendStep(p) /\ send_lock' = p /\ bytes_in_flight' = bytes_in_flight /\ wire' = wire

\* C30: a STREAM_DATA or TERM_OUTPUT send of n bytes with bytes_in_flight + n
\* exactly equal to remote_window is sent without waiting; after it no
\* flow-controlled packet of one or more bytes is emitted until a
\* WINDOW_UPDATE has been processed: with the window used up such a send
\* waits, and credit comes back through WINDOW_UPDATE only.
C30_ExactWindow ==
    /\ [][\A p \in Procs :
            (SendStep(p) /\ snd[p].type \in FlowControlled) =>
                /\ bytes_in_flight + snd[p].len = remote_window => Emits(p)
                /\ (bytes_in_flight >= remote_window /\ snd[p].len >= 1) => WaitsOn(p)]_vars
    /\ [][bytes_in_flight' < bytes_in_flight => \E c \in Conns : RecvWindowUpdate(c)]_vars

\* the window of 8200 bytes is used up by two sends of 4100, the next waits
C30_WindowUsedUp ==
    /\ remote_window = 8200 /\ bytes_in_flight = 8200
    /\ \E p \in Procs : send_lock = p /\ snd[p].type \in FlowControlled /\ ~window_available

\* ------------------------------------------------------------------------
\* Inbound credit
\* ------------------------------------------------------------------------
\* the payload bytes the dispatcher of c takes in with this step
Received(c) == credit'[c].rcvd - credit[c].rcvd

\* C31: after each inbound STREAM_DATA or TERM_INPUT has been handled the
\* accumulator is below 8192: a WINDOW_UPDATE goes to send_packet exactly
\* when the accumulator reaches 8192 or more, it carries the whole
\* accumulator as its increment and the accumulator is reset to zero; below
\* the threshold no WINDOW_UPDATE is sent.
C31_AckAtThreshold ==
    /\ [](bytes_received_unacked < WINDOW_UPDATE_THRESHOLD)
    /\ [][\A c \in Conns :
            Received(c) > 0 =>
                LET acc == bytes_received_unacked + Received(c)
                IN IF acc >= WINDOW_UPDATE_THRESHOLD
                   THEN /\ snd'[Disp(c)].type = "WINDOW_UPDATE"
                        /\ snd'[Disp(c)].data = <<acc>>
                        /\ bytes_received_unacked' = 0
                   ELSE /\ snd'[Disp(c)] = NoPkt
                        /\ bytes_received_unacked' = acc]_vars
    /\ [][\A p \in Procs :
            (snd'[p].type = "WINDOW_UPDATE" /\ snd[p].type # "WINDOW_UPDATE")
                => \E c \in Conns : p = Disp(c) /\ Received(c) > 0]_vars

\* two TERM_INPUT of 4096 bytes: the second brings the accumulator to 8192
C31_UpdateAtThreshold ==
    \E c \in Conns :
        /\ snd[Disp(c)] = WindowUpdate(WINDOW_UPDATE_THRESHOLD)
        /\ bytes_received_unacked = 0
        /\ credit[c].rcvd = WINDOW_UPDATE_THRESHOLD

\* ------------------------------------------------------------------------
\* The registry after an operation
\* ------------------------------------------------------------------------
\* tool t returns in this step, the END or ERROR of its stream handled
ReturnsAfterEnd(t) ==
    /\ pc[Tool(t)] = "wait" /\ pc'[Tool(t)] = "idle"
    /\ tres'[t].via \in {"end", "status", "error"}

\* C32: the registry state of a stream - its completion slot and its chunks
\* list - is destroyed once its STREAM_END or STREAM_ERROR has been handled
\* and the operation has returned; after an operation that finishes with
\* STREAM_ERROR no chunks list remains registered for its id.
C32_RegistryDestroyed ==
    [][\A t \in Tools :
          ReturnsAfterEnd(t) =>
              /\ tres'[t].sid \notin DOMAIN pending_streams'
              /\ tres'[t].sid \notin DOMAIN stream_data']_vars

\* what one edit_file call alone makes of the bytes `file`
EditOf(t, file) ==
    EditFile(file, unit.calls[t].old_string, unit.calls[t].new_string,
             unit.calls[t].replace_all).data

Succeeded(t) == unit.calls[t].pc = "done" /\ unit.calls[t].raised = <<>>

\* C33: edit_file holds no lock between its FILE_READ and FILE_WRITE legs. A
\* call writes the edit of the content its own read delivered, whatever the
\* file holds by then; so when two calls on one path interleave as read,
\* read, write, write, the file ends as the later writer's edit of the
\* original alone, and neither call reports an error.
C33_NoLockAcrossLegs ==
    /\ [][\A t \in Tools :
            (unit.calls[t].pc = "writing" /\ unit'.calls[t].pc = "done"
                /\ unit'.calls[t].raised = <<>>)
            => unit'.file = EditOf(t, unit.calls[t].content)]_vars
    /\ [](\A t, u \in Tools :
            (unit.op = "edits" /\ unit.writes = <<t, u>>
                /\ unit.calls[t].content = unit.original
                /\ unit.calls[u].content = unit.original)
            => /\ unit.file = EditOf(u, unit.original)
               /\ Succeeded(t) /\ Succeeded(u))

\* both calls read the original, both wrote, both succeeded, and the first
\* writer's edit is gone from the file
C33_LostUpdate ==
    /\ unit.op = "edits"
    /\ \E t, u \in Tools :
          /\ t # u /\ unit.writes = <<t, u>>
          /\ unit.calls[t].content = unit.original
          /\ unit.calls[u].content = unit.original
          /\ Succeeded(t) /\ Succeeded(u)
          /\ unit.calls[t].result = <<"Edit successful">>
          /\ unit.file = EditOf(u, unit.original)
          /\ unit.file # EditOf(u, EditOf(t, unit.original))
          /\ Count(Decode(unit.file), unit.calls[t].new_string) = 0
          /\ Count(Decode(EditOf(t, unit.original)), unit.calls[t].new_string) > 0

\* C34: terminal traffic is relayed in FIFO order in both directions: the
\* TERM_OUTPUT packets carry the PTY bytes in the order they were read, and
\* the TERM_INPUT payloads are written to the PTY master verbatim, in the
\* order in which the packets arrived relative to each other and to
\* TERM_RESIZE.
C34_TerminalFifo ==
    unit.op = "term" =>
        /\ Concat(unit.output) \o unit.data \o Concat(unit.pty) = Concat(unit.shown)
        /\ unit.taken \o unit.packet_queue \o unit.arriving = unit.arrived
        /\ Len(unit.applied) = Len(unit.taken)
        /\ \A i \in 1..Len(unit.taken) :
              unit.taken[i].type = "TERM_INPUT" => unit.applied[i] = unit.taken[i].payload

\* C35: the inbound reader is never blocked by a sender that waits for
\* outbound credit: in no state does a STREAM_DATA or TERM_OUTPUT sender wait
\* for credit, holding the send lock, while the reader of the connection
\* waits for that lock with a WINDOW_UPDATE or a PONG to emit.
C35_ReaderNeverBehindCredit ==
    \A p \in Procs, c \in Conns :
        ~ /\ send_lock = p /\ snd[p].type \in FlowControlled /\ ~window_available
          /\ client_writer = c /\ pc[Disp(c)] = "send"
          /\ snd[Disp(c)].type \in {"WINDOW_UPDATE", "PONG"}
          /\ \E i \in 1..Len(lockq) : lockq[i] = Disp(c)

\* handler t waits in wait_stream for a stream of a session that has ended:
\* connections come one after another and cleanup() has dropped its slot
WaitsFromEndedSession(t) ==
    /\ ~env.overlap
    /\ pc[Tool(t)] = "wait"
    /\ \/ tl[t].sid \notin DOMAIN pending_streams
       \/ pending_streams[tl[t].sid] # tl[t].own

\* C36: a tool call still pending from an ended session never affects a later
\* session: when it times out or returns, it removes neither the completion
\* slot nor the chunks of a stream with the same id opened in the new
\* session.
C36_StaleCallHarmless ==
    [][\A t \in Tools :
          (WaitsFromEndedSession(t) /\ pc'[Tool(t)] # "wait")
          => /\ \A sid \in DOMAIN pending_streams :
                   /\ sid \in DOMAIN pending_streams'
                   /\ pending_streams'[sid] = pending_streams[sid]
             /\ \A sid \in DOMAIN stream_data :
                   /\ sid \in DOMAIN stream_data'
                   /\ stream_data'[sid] = stream_data[sid]]_vars

\* the sessions of a peer that returns credit, one connection or one after
\* another, under the scheduling of the event loop and its timers
RejoinInit == Init /\ env.name \in {"flow", "reconnect"}
\* handle_client runs on when asyncio.wait returns, and through its finally
Teardown == \A c \in Conns : WF_vars(TasksDone(c)) /\ WF_vars(Finally(c))
RejoinSpec == RejoinInit /\ [][Next]_vars /\ Progress /\ Teardown

\* a session has ended and the handler of a new connection has read a valid
\* HELLO: it is inside send_packet with the HELLO_ACK
AcksNewClient(c) ==
    /\ sessions > 0
    /\ pc[Hc(c)] = "ack"
    /\ \A x \in Conns \ {c} : pc[Hc(x)] = "closed"

\* C37: after a session ends, a new client that connects and sends a valid
\* HELLO eventually receives HELLO_ACK, even if a data sender of the previous
\* session was blocked waiting for window credit when that session ended.
C37_NewClientAcked ==
    \A c \in Conns : AcksNewClient(c) ~> (pc[Hc(c)] # "ack")

\* C38: within a session the relay never returns more credit than it
\* received: the sum of the WINDOW_UPDATE increments it has sent in the
\* session never exceeds the payload bytes of the STREAM_DATA and TERM_INPUT
\* packets it has received in that session, also when the sessions come one
\* after another.
C38_CreditWithinReceived ==
    ~env.overlap => \A c \in Conns : credit[c].sent <= credit[c].rcvd

SessionTasks(c) == {Disp(c), Pty(c), Term(c)}

\* one of the three tasks of a running session has finished
TaskFinished(c) == pc[Hc(c)] = "run" /\ \E x \in SessionTasks(c) : Over(x)

\* the session of connection c has ended, with everything torn down
SessionEnded(c) ==
    /\ pc[Hc(c)] = "closed"
    /\ \A x \in SessionTasks(c) : Over(x)
    /\ ~master_fd
    /\ pending_streams = EmptyDict /\ stream_data = EmptyDict
    /\ next_stream_id = 0
    /\ ~client_connected
    /\ ~conn_open[c]

\* C39: when any one of the reader, the PTY forwarder or the terminal-input
\* applier finishes, the session always reaches the ended state: the other
\* tasks are cancelled, the assistant is signalled and the PTY master closed,
\* the stream registry is empty, next_stream_id is 0, client_connected is
\* cleared and the socket is closed.
C39_SessionEnds ==
    \A c \in Conns : TaskFinished(c) ~> SessionEnded(c)

\* a session ended after its terminal-input applier failed, with a tool call
\* of the session still waiting for its stream
C39_EndedAfterApplierFailed ==
    \E c \in Conns, t \in Tools :
        /\ SessionEnded(c) /\ pc[Term(c)] = "failed"
        /\ pc[Tool(t)] = "wait"

Hooked == unit.op = "hook" /\ unit.done

\* the key argument of each tool the hook handles
KeyArgument(tool_name, tool_input) ==
    IF tool_name = <<"Bash">> THEN tool_input.f.command
    ELSE IF tool_name \in {<<"Read">>, <<"Write">>} THEN tool_input.f.file_path
    ELSE tool_input.f.pattern

\* the tool of a well-formed input, "" without a name
NamedTool(stdin) == IF stdin.f.tool_name = Absent THEN <<>> ELSE stdin.f.tool_name.s

\* C40: the PreToolUse hook always emits exactly one decision and returns 0:
\* allow when TELEPRESENCE_SOCKET is unset, when stdin is not valid JSON, when
\* the tool is not one of Bash/Read/Write/Glob/Grep, or when the tool's key
\* argument is empty; deny with an mcp__telepresence__ hint for
\* Read/Write/Glob/Grep with a non-empty key argument; allow with the command
\* rewritten to a helper 'exec' call for Bash with a non-empty command.
C40_HookDecides ==
    Hooked =>
        /\ unit.out.rc = 0
        /\ Len(unit.out.stdout) = 1
        /\ LET decision == unit.out.stdout[1]
               stdin == unit.stdin
           IN IF unit.socket = Absent \/ stdin.t = "invalid" THEN decision = Allow
              ELSE IF unit.socket = Str(<<>>) THEN TRUE
              ELSE IF NamedTool(stdin) \notin Handled THEN decision = Allow
              ELSE LET tool_input == Get(stdin.f.tool_input, Obj([command |-> Absent,
                                         file_path |-> Absent, pattern |-> Absent,
                                         path |-> Absent]))
                       key == KeyArgument(NamedTool(stdin), tool_input)
                   IN IF key \in {Absent, Str(<<>>)} THEN decision = Allow
                      ELSE IF NamedTool(stdin) = <<"Bash">>
                      THEN /\ decision.permissionDecision = "allow"
                           /\ \E i \in 1..Len(decision.updatedInput) :
                                 decision.updatedInput[i] = "exec"
                      ELSE /\ decision.permissionDecision = "deny"
                           /\ decision.permissionDecisionReason[4] = "Use mcp__telepresence__"

====
